---- MODULE Spec2Model ----
(***************************************************************************)
(* A model of the entity-normalisation, graph-construction and network-    *)
(* analytics core of LADFA (src/post_processor.py).                        *)
(*                                                                         *)
(* Strings are TLA+ strings; the Python string methods the code uses       *)
(* (slicing, find, replace, split, lower, ...) are written out below with  *)
(* Python's semantics.  A dict is a function; a list is a sequence.        *)
(***************************************************************************)
EXTENDS Integers, Sequences, FiniteSets, TLC

VARIABLES
    pc,         \* where the run is: "build", "aborted", "post_done", "post_fault", ...
    rev,        \* the accumulators of get_data_flow_graph_revised
    simple,     \* the graph of get_data_flow_graph_simple
    last,       \* what the last loop iteration saw: the row, its normalised triple
    stats,      \* what post_processing computed
    metric,     \* what finding_tree and longest_path_multidigraph computed
    ranked,     \* the arguments and the result of a call of process
    call        \* the arguments and the result of a call of another function

vars == <<pc, rev, simple, last, stats, metric, ranked, call>>

\* ------------------------------------------------------------------ bounds

\* Rows of one document (iterations of the builder's loop).
MaxRows == 2

\* Entries of a ranking handed to process.
MaxRank == 5

\* Scores of a ranking run from 0 to MaxScore.
MaxScore == 2

\* top_n runs from -MaxTopN to MaxTopN.
MaxTopN == 3

\* Rows of a population handed to save_verification2csv.
MaxPopulation == 5

\* Calls of get_abbreviation that share one dictionary.
MaxCalls == 2

\* Calls of get_entity_property that share the three registries.
MaxClassified == 2

\* Completed flows of a document handed to post_processing, and its flows
\* without sender and without receiver.
MaxCompleted == 8

MaxIncomplete == 1

\* Cells of a row that load_json_data is called with, one after the other.
MaxCells == 2

\* Words before the brackets of a text handed to get_abbreviation.
MaxWords == 2

\* ---------------------------------------------------- Python's str methods

Max(a, b) == IF a >= b THEN a ELSE b

Min(a, b) == IF a <= b THEN a ELSE b

\* F applied to v: a local variable v of the code, assigned once and read in F.
With(v, F(_)) == F(v)

\* The character s[i-1] (TLA+ counts from 1).
Char(s, i) == SubSeq(s, i, i)

\* A slice bound as Python clamps it.
PyIndex(n, i) == IF i < 0 THEN Max(0, n + i) ELSE Min(i, n)

\* s[a:b]
Slice(s, a, b) == SubSeq(s, PyIndex(Len(s), a) + 1, PyIndex(Len(s), b))

\* s[a:]
SliceFrom(s, a) == SubSeq(s, PyIndex(Len(s), a) + 1, Len(s))

StartsWith(s, p) == Len(p) <= Len(s) /\ SubSeq(s, 1, Len(p)) = p

EndsWith(s, p) == Len(p) <= Len(s) /\ SubSeq(s, Len(s) - Len(p) + 1, Len(s)) = p

RECURSIVE FindFrom(_, _, _)
FindFrom(s, sub, i) ==
    IF i + Len(sub) > Len(s) THEN -1
    ELSE IF SubSeq(s, i + 1, i + Len(sub)) = sub THEN i
    ELSE FindFrom(s, sub, i + 1)

\* s.find(sub): the 0-based place of the first occurrence, or -1.
Find(s, sub) == FindFrom(s, sub, 0)

\* sub in s
Contains(s, sub) == Find(s, sub) >= 0

RECURSIVE Replace(_, _, _)
\* s.replace(old, new), old not empty: every occurrence, left to right.
Replace(s, old, new) ==
    IF Len(s) < Len(old) THEN s
    ELSE IF StartsWith(s, old)
         THEN new \o Replace(SubSeq(s, Len(old) + 1, Len(s)), old, new)
         ELSE Char(s, 1) \o Replace(Tail(s), old, new)

RECURSIVE SplitAcc(_, _, _)
SplitAcc(s, cur, acc) ==
    IF s = "" THEN (IF cur = "" THEN acc ELSE Append(acc, cur))
    ELSE IF Char(s, 1) = " "
         THEN SplitAcc(Tail(s), "", IF cur = "" THEN acc ELSE Append(acc, cur))
         ELSE SplitAcc(Tail(s), cur \o Char(s, 1), acc)

\* s.split(): the words between runs of blanks.
Split(s) == SplitAcc(s, "", <<>>)

RECURSIVE Join(_, _)
\* sep.join(words)
Join(words, sep) ==
    IF Len(words) = 0 THEN ""
    ELSE IF Len(words) = 1 THEN words[1]
    ELSE words[1] \o sep \o Join(Tail(words), sep)

UpperLetters == "ABCDEFGHIJKLMNOPQRSTUVWXYZ"

LowerLetters == "abcdefghijklmnopqrstuvwxyz"

IsUpperChar(c) == \E i \in 1..Len(UpperLetters) : Char(UpperLetters, i) = c

IsLowerChar(c) == \E i \in 1..Len(LowerLetters) : Char(LowerLetters, i) = c

LowerChar(c) ==
    IF IsUpperChar(c)
    THEN Char(LowerLetters, CHOOSE i \in 1..Len(UpperLetters) : Char(UpperLetters, i) = c)
    ELSE c

RECURSIVE Lower(_)
\* s.lower()
Lower(s) == IF s = "" THEN "" ELSE LowerChar(Char(s, 1)) \o Lower(Tail(s))

\* s.isupper(): some cased character, and no lower-case one.
IsUpper(s) ==
    /\ \E i \in 1..Len(s) : IsUpperChar(Char(s, i))
    /\ \A i \in 1..Len(s) : ~IsLowerChar(Char(s, i))

\* The members of a list, as a set.
Range(f) == {f[i] : i \in DOMAIN f}

\* item in arr
In(item, arr) == \E i \in DOMAIN arr : arr[i] = item

\* A dict with key k set to v.
DictPut(d, k, v) == [x \in (DOMAIN d) \cup {k} |-> IF x = k THEN v ELSE d[x]]

EmptyDict == [x \in {} |-> ""]

\* ------------------------------------------------------ Entity Normalizer

\* The characters re.search(r'\d|[&+]', word) looks for.
AbbreviationMarks == "0123456789&+"

\* is_abbreviation: fully upper-case, or holding a digit, & or +, or ending in 's.
is_abbreviation(word) ==
    \/ IsUpper(word)
    \/ \E i \in 1..Len(word) : \E j \in 1..Len(AbbreviationMarks) :
           Char(word, i) = Char(AbbreviationMarks, j)
    \/ EndsWith(word, "'s")

\* The exclusions list both builders pass to singularize_phrase.
exclusions ==
    {"Our", "our", "we", "We", "us", "Us", "They", "they", "Them", "them", "data",
     "Data", "address", "Address", "as", "As", "are", "Are", "is", "Is", "whether",
     "Whether", "another", "Another", "Have", "have", "Has", "has", "The", "the"}

\* inflect's p.singular_noun(word) or word, for the regular plural: a word
\* in -s (not -ss) loses the s; inflect answers False for any other word and
\* the word is kept.
singular_noun_or_word(word) ==
    IF Len(word) > 1 /\ EndsWith(word, "s") /\ ~EndsWith(word, "ss")
    THEN SubSeq(word, 1, Len(word) - 1)
    ELSE word

\* singularize_phrase(phrase, exclusions)
singularize_phrase(phrase) ==
    IF phrase \notin exclusions
    THEN LET words == Split(phrase)
             singular_words ==
                 [i \in 1..Len(words) |->
                     IF is_abbreviation(words[i]) \/ words[i] \in exclusions
                     THEN words[i]
                     ELSE singular_noun_or_word(words[i])]
         IN  Join(singular_words, " ")
    ELSE phrase

\* remove_spaces(text): text[0] raises IndexError on the empty string.
remove_spaces(text) ==
    IF text = "" THEN [err |-> TRUE, text |-> ""]
    ELSE LET t1 == IF Char(text, 1) = " " THEN SliceFrom(text, 1) ELSE text
             t2 == IF t1 = " " THEN Slice(t1, 0, Len(t1) - 2) ELSE t1
         IN  [err |-> FALSE, text |-> t2]

RECURSIVE ParenGroups(_)
\* re.findall(r'\(([^)]+)\)', text): the contents of the groups "(...)",
\* each running from a "(" to the first ")" after it, at least one
\* character long, found left to right without overlap.
ParenGroups(s) ==
    IF s = "" THEN <<>>
    ELSE IF Char(s, 1) = "("
         THEN LET rest == Tail(s)
                  j == Find(rest, ")")
              IN  IF j = -1 THEN <<>>
                  ELSE IF j = 0 THEN ParenGroups(rest)
                  ELSE <<SubSeq(rest, 1, j)>> \o ParenGroups(SubSeq(rest, j + 2, Len(rest)))
         ELSE ParenGroups(Tail(s))

\* ''.join(item[0] for item in words)
Initials(words) == Join([i \in 1..Len(words) |-> Char(words[i], 1)], "")

\* abbreviation_dict[abbreviation] = full, whether the key is there or not.
RegisterUnguarded(dict, abbreviation, full) == DictPut(dict, abbreviation, full)

\* abbreviation_dict[abbreviation] = full, unless the key is there already.
RegisterAbbreviation(dict, abbreviation, full) ==
    IF abbreviation \in DOMAIN dict THEN dict ELSE DictPut(dict, abbreviation, full)

\* text without every occurrence of the string cut; the brackets stay.
StripOnly(text, cut) == IF cut = "" THEN text ELSE Replace(text, cut, "")

\* text without "(", ")" and every occurrence of the string cut.
StripParensAnd(text, cut) ==
    LET t == Replace(Replace(text, "(", ""), ")", "")
    IN  IF cut = "" THEN t ELSE Replace(t, cut, "")

\* The result of get_abbreviation: the text as rewritten when a phrase
\* matched, the dictionary, and err when remove_spaces raised IndexError.
AbbreviationResult(text, dict, matched, processed) ==
    IF matched /\ processed.err THEN [err |-> TRUE, text |-> text, dict |-> dict]
    ELSE [err |-> FALSE, text |-> IF matched THEN processed.text ELSE text, dict |-> dict]

\* Whether the abbreviation is the initials of the words of temp_string_arr.
InitialsMatch(abbreviation, fits, temp_string_arr) ==
    fits /\ abbreviation = Initials(temp_string_arr)

\* get_abbreviation, the branch len(tmp_arr) == 1: one token in the brackets,
\* compared with the initials of the words before and of the words after.
\* A raise in the first comparison leaves the dictionary as that one made it.
AbbreviationOneToken(text, dict, abbreviation, sub_string_1, sub_string_2) ==
    With(Split(sub_string_1), LAMBDA arr_1 :
    With(Split(sub_string_2), LAMBDA arr_2 :
    With(SubSeq(arr_1, Len(arr_1) - Len(abbreviation) + 1, Len(arr_1)), LAMBDA temp_1 :
    With(SubSeq(arr_2, 1, Len(abbreviation)), LAMBDA temp_2 :
    With(InitialsMatch(abbreviation, Len(arr_1) - Len(abbreviation) >= 0, temp_1),
         LAMBDA match_1 :
    With(InitialsMatch(abbreviation, Len(arr_2) >= Len(abbreviation), temp_2),
         LAMBDA match_2 :
    With(IF match_1
         THEN RegisterAbbreviation(dict, abbreviation, remove_spaces(Join(temp_1, " ")).text)
         ELSE dict, LAMBDA dict_1 :
    With(remove_spaces(StripParensAnd(text, abbreviation)), LAMBDA processed :
        IF match_1 /\ processed.err
        THEN AbbreviationResult(text, dict_1, TRUE, processed)
        ELSE AbbreviationResult(text,
                 IF match_2
                 THEN RegisterAbbreviation(dict_1, abbreviation,
                          remove_spaces(Join(temp_2, " ")).text)
                 ELSE dict_1,
                 match_1 \/ match_2, processed)))))))))

\* get_abbreviation, the branch len(tmp_arr) > 1: the initials of the tokens
\* in the brackets, compared with the last word before and the last word after.
AbbreviationManyTokens(text, dict, abbreviation, sub_string_1, sub_string_2) ==
    With(Split(sub_string_1), LAMBDA arr_1 :
    With(Split(sub_string_2), LAMBDA arr_2 :
    With(Len(arr_1) > 0 /\ abbreviation = arr_1[Len(arr_1)], LAMBDA match_1 :
    With(Len(arr_2) > 0 /\ abbreviation = arr_2[Len(arr_2)], LAMBDA match_2 :
    With(IF match_1 THEN RegisterAbbreviation(dict, abbreviation, sub_string_1) ELSE dict,
         LAMBDA dict_1 :
    With(remove_spaces(StripParensAnd(text, sub_string_1)), LAMBDA processed_1 :
        IF match_1 /\ processed_1.err
        THEN AbbreviationResult(text, dict_1, TRUE, processed_1)
        ELSE IF match_2
        THEN AbbreviationResult(text,
                 RegisterAbbreviation(dict_1, abbreviation, sub_string_2), TRUE,
                 remove_spaces(StripParensAnd(text, sub_string_2)))
        ELSE AbbreviationResult(text, dict_1, match_1, processed_1)))))))

\* A folding that takes the first group in brackets of a text with any
\* number of them.
AbbreviationOfFirstGroup(text, abbreviation_dict) ==
    With(ParenGroups(text), LAMBDA tmp :
        IF Len(tmp) = 0
        THEN [err |-> FALSE, text |-> text, dict |-> abbreviation_dict]
        ELSE With(Split(tmp[1]), LAMBDA tmp_arr :
             With(Slice(text, 0, Find(text, "(") - 1), LAMBDA sub_string_1 :
             With(SliceFrom(text, Find(text, ")") + 1), LAMBDA sub_string_2 :
                 IF Len(tmp_arr) = 1
                 THEN AbbreviationOneToken(text, abbreviation_dict, tmp_arr[1],
                                           sub_string_1, sub_string_2)
                 ELSE IF Len(tmp_arr) > 1
                 THEN AbbreviationManyTokens(text, abbreviation_dict, Initials(tmp_arr),
                                             sub_string_1, sub_string_2)
                 ELSE [err |-> FALSE, text |-> text, dict |-> abbreviation_dict]))))

\* get_abbreviation(text, abbreviation_dict)
get_abbreviation(text, abbreviation_dict) ==
    With(ParenGroups(text), LAMBDA tmp :
        IF Len(tmp) # 1
        THEN [err |-> FALSE, text |-> text, dict |-> abbreviation_dict]
        ELSE With(Split(tmp[1]), LAMBDA tmp_arr :
             With(Slice(text, 0, Find(text, "(") - 1), LAMBDA sub_string_1 :
             With(SliceFrom(text, Find(text, ")") + 1), LAMBDA sub_string_2 :
                 IF Len(tmp_arr) = 1
                 THEN AbbreviationOneToken(text, abbreviation_dict, tmp_arr[1],
                                           sub_string_1, sub_string_2)
                 ELSE IF Len(tmp_arr) > 1
                 THEN AbbreviationManyTokens(text, abbreviation_dict, Initials(tmp_arr),
                                             sub_string_1, sub_string_2)
                 ELSE [err |-> FALSE, text |-> text, dict |-> abbreviation_dict]))))

\* The words spaCy tags as possessive modifiers (dep_ == "poss") of the noun
\* that follows them.
PossessiveWords == {"my", "our", "your", "his", "her", "its", "their"}

\* get_main(phrase): the text of the parse's ROOT token.  For the noun
\* phrases that name parties the root is the head noun, the last word; a
\* phrase with no token comes back as it is.
get_main(phrase) ==
    LET words == Split(phrase)
    IN  IF Len(words) = 0 THEN phrase ELSE words[Len(words)]

\* get_poss(phrase): the last possessive modifier of the phrase, or the
\* phrase itself when it has none.
get_poss(phrase) ==
    LET words == Split(phrase)
        at == {i \in 1..(Len(words) - 1) : Lower(words[i]) \in PossessiveWords}
    IN  IF at = {} THEN phrase
        ELSE words[CHOOSE i \in at : \A j \in at : j <= i]

first_party_entity_arr ==
    {"we", "us", "this website", "this company", "this organisation",
     "this organization", "this app", "from you", "our website", "our",
     "our company", "our organisation", "our organization", "our service",
     "our app", "the website", "the company", "the app", "the organization",
     "app", "device", "your app", "your device", "the device", "your car", "car"}

first_party_entity_main_root_arr ==
    {"we", "We", "us", "Website", "website", "Company", "company", "Organisation",
     "organisation", "Organization", "organization", "App", "app", "Service",
     "service", "Device", "device", "Car", "car", "Site", "site"}

first_party_entity_poss_arr == {"this", "our", "This", "Our"}

\* rectify_collection_party(entity): the flag its loops leave set.
rectify_collection_party(entity) ==
    \/ entity \in first_party_entity_arr
    \/ /\ get_main(entity) \in first_party_entity_main_root_arr
       /\ get_poss(entity) \in first_party_entity_poss_arr

\* An entity appended whether or not the registry holds it already.
AppendUnguarded(arr, entity) == Append(arr, entity)


\* arr.append(entity), if entity is not in arr.
AppendOnce(arr, entity) == IF In(entity, arr) THEN arr ELSE Append(arr, entity)

\* A classification that looks at the head of the entity before it looks
\* for the main party.
EntityPropertyUserFirst(entity0, party_category, main_party, first_party_arr, third_party_arr, user_party_arr) ==
    LET entity == Lower(entity0)
        main_part == get_main(entity)
        same == [color |-> "#00008B", first |-> first_party_arr,
                 third |-> third_party_arr, user |-> user_party_arr]
    IN  IF entity = "" THEN same
        ELSE IF \/ StartsWith(main_part, "you")
                \/ StartsWith(main_part, "user")
                \/ StartsWith(main_part, "customer")
        THEN [same EXCEPT !.color = "#f7ff99",
                          !.user = AppendOnce(user_party_arr, entity)]
        ELSE IF Contains(entity, main_party) \/ rectify_collection_party(entity)
        THEN [same EXCEPT !.color = "#ccff99",
                          !.first = AppendOnce(first_party_arr, entity)]
        ELSE IF party_category = "Unspecified" /\ entity = "unspecified party"
        THEN same
        ELSE [same EXCEPT !.color = "#ff99ff",
                          !.third = AppendOnce(third_party_arr, entity)]

\* get_entity_property(entity, party_category, main_party, first_party_arr,
\* third_party_arr, user_party_arr): the colour and the three registries.
get_entity_property(entity0, party_category, main_party, first_party_arr, third_party_arr, user_party_arr) ==
    LET entity == Lower(entity0)
        main_part == get_main(entity)
        same == [color |-> "#00008B", first |-> first_party_arr,
                 third |-> third_party_arr, user |-> user_party_arr]
    IN  IF entity = "" THEN same
        ELSE IF Contains(entity, main_party) \/ rectify_collection_party(entity)
        THEN [same EXCEPT !.color = "#ccff99",
                          !.first = AppendOnce(first_party_arr, entity)]
        ELSE IF \/ StartsWith(main_part, "you")
                \/ StartsWith(main_part, "user")
                \/ StartsWith(main_part, "customer")
        THEN [same EXCEPT !.color = "#f7ff99",
                          !.user = AppendOnce(user_party_arr, entity)]
        ELSE IF party_category = "Unspecified" /\ entity = "unspecified party"
        THEN same
        ELSE [same EXCEPT !.color = "#ff99ff",
                          !.third = AppendOnce(third_party_arr, entity)]

\* ------------------------------------------------- networkx.MultiDiGraph

\* A graph: its nodes in the order they were added, each with its
\* attributes, and its edges in the order they were added.
EmptyGraph == [nodes |-> <<>>, edges |-> <<>>]

\* G.has_node(n)
has_node(G, n) == \E i \in DOMAIN G.nodes : G.nodes[i].id = n

\* G.has_edge(u, v)
has_edge(G, u, v) == \E i \in DOMAIN G.edges : G.edges[i].u = u /\ G.edges[i].v = v

\* G.add_node(n, **attrs), called for a node the graph does not hold.
add_node(G, n, attrs) == [G EXCEPT !.nodes = Append(@, [id |-> n, attrs |-> attrs])]

\* A node that add_edge has to create carries no attribute.
NoAttrs == [x \in {} |-> ""]

\* G.add_edge(u, v, **attrs): a new edge, parallel to any edge already
\* there; an endpoint the graph does not hold is created first.
add_edge(G, u, v, attrs) ==
    LET G1 == IF has_node(G, u) THEN G ELSE add_node(G, u, NoAttrs)
        G2 == IF has_node(G1, v) THEN G1 ELSE add_node(G1, v, NoAttrs)
    IN  [G2 EXCEPT !.edges = Append(@, [u |-> u, v |-> v, attrs |-> attrs])]

\* ---------------------------------------------------------- Graph Builder

\* What json.loads makes of one cell of the input CSV is decided by the
\* cell's text; a cell is modelled by the kind of text it holds:
\*   "object"         the text of a JSON object, val
\*   "quoted_object"  the same wrapped in one layer of single quotes
\*   "invalid"        a text json.loads rejects (JSONDecodeError)
\*   "list", "number", "null"   the text of a JSON list, number or null
\*   "string"         a JSON string literal whose content is the text of
\*                    the cell val (double encoding)
ObjectCell(val) == [kind |-> "object", val |-> val]

QuotedCell(val) == [kind |-> "quoted_object", val |-> val]

InvalidCell == [kind |-> "invalid", val |-> <<>>]

ListCell == [kind |-> "list", val |-> <<>>]

NumberCell == [kind |-> "number", val |-> <<>>]

NullCell == [kind |-> "null", val |-> <<>>]

StringCell(inner) == [kind |-> "string", val |-> inner]

\* What a call of load_json_data leaves: the value it returned with its
\* Python type (none when the value is None), or the exception it raised.
Returned(type, val) == [none |-> type = "NoneType", val |-> val, raised |-> "", type |-> type]

Raised(exception) == [none |-> FALSE, val |-> <<>>, raised |-> exception, type |-> ""]

\* The second json.loads of load_json_data, on the content of a string:
\* whatever it parses to is returned, and after a JSONDecodeError
\* parsed_data is still the string.
LoadInner(inner) ==
    CASE inner.kind \in {"object", "quoted_object"} -> Returned("dict", inner.val)
      [] inner.kind = "invalid" -> Returned("str", <<>>)
      [] inner.kind = "list" -> Returned("list", <<>>)
      [] inner.kind = "number" -> Returned("int", <<>>)
      [] inner.kind = "null" -> Returned("NoneType", <<>>)
      [] inner.kind = "string" -> Returned("str", <<>>)

\* load_json_data(json_string): the dict, None after a JSONDecodeError of
\* the first json.loads, the outcome of the second json.loads for a string,
\* and AttributeError from parsed_data.startswith for a value that is
\* neither a dict nor a string.
load_json_data(cell) ==
    IF cell.kind \in {"object", "quoted_object"} THEN Returned("dict", cell.val)
    ELSE IF cell.kind = "invalid" THEN Returned("NoneType", <<>>)
    ELSE IF cell.kind = "string" THEN LoadInner(cell.val)
    ELSE Raised("AttributeError")

\* The purpose names of kb/data_processing_purpose_kt.json.
purposes == <<"Marketing", "Analytics">>

\* generate_distinct_colors(n): n colours, the i-th of hue i/n.
generate_distinct_colors(n) == [i \in 1..n |-> "hue " \o ToString(i - 1) \o "/" \o ToString(n)]

\* purpose_color_map = dict(zip(purposes, purpose_colors))
purpose_color_map ==
    [name \in Range(purposes) |->
        generate_distinct_colors(Len(purposes))[CHOOSE i \in DOMAIN purposes : purposes[i] = name]]

\* text_dictrionary[raw_idx]: the text of the segment.
text_dictrionary(raw_idx) == "segment " \o raw_idx

\* The accumulators as get_data_flow_graph_revised creates them.
FreshRevised ==
    [G |-> EmptyGraph,
     first_party_arr |-> <<>>, third_party_arr |-> <<>>, user_party_arr |-> <<>>,
     data_flow_completed_arr |-> <<>>, data_flow_no_sender_arr |-> <<>>,
     data_flow_no_receiver_arr |-> <<>>,
     data_category_dic |-> EmptyDict, abbreviation_dict |-> EmptyDict,
     data_output_arr |-> <<>>]

\* singularize_phrase, lower() and replace('the', '') of one string.
Canonical(x) == Replace(Lower(singularize_phrase(x)), "the", "")

\* remove_spaces(x) if len(x) > 0
TrimLeading(x) == IF Len(x) > 0 THEN remove_spaces(x).text ELSE x

\* The normalised triple, or err when a get_abbreviation call raised.
Normalized(err, data_type, data_sender, data_receiver, dict) ==
    [err |-> err, data_type |-> data_type, data_sender |-> data_sender,
     data_receiver |-> data_receiver, dict |-> dict]

\* The normalisation both builders apply to data_type, data_sender and
\* data_receiver, the abbreviation dictionary threaded through the three
\* get_abbreviation calls.
NormalizeTriple(data_type, data_sender, data_receiver, abbreviation_dict) ==
    With(get_abbreviation(Canonical(data_type), abbreviation_dict), LAMBDA a_type :
        IF a_type.err THEN Normalized(TRUE, "", "", "", a_type.dict)
        ELSE With(get_abbreviation(Canonical(data_sender), a_type.dict), LAMBDA a_sender :
            IF a_sender.err THEN Normalized(TRUE, "", "", "", a_sender.dict)
            ELSE With(get_abbreviation(Canonical(data_receiver), a_sender.dict),
                      LAMBDA a_receiver :
                IF a_receiver.err THEN Normalized(TRUE, "", "", "", a_receiver.dict)
                ELSE Normalized(FALSE, TrimLeading(a_type.text),
                         TrimLeading(a_sender.text), TrimLeading(a_receiver.text),
                         a_receiver.dict))))

\* A gate that compares only the sender with the receiver.
ValidTripleEndsOnly(data_sender, data_type, data_receiver) ==
    data_sender # data_receiver

\* A gate that does not compare the sender with the receiver.
ValidTripleTypeOnly(data_sender, data_type, data_receiver) ==
    data_sender # data_type /\ data_receiver # data_type

\* The validity gate of both builders.
ValidTriple(data_sender, data_type, data_receiver) ==
    data_sender # data_type /\ data_receiver # data_type /\ data_sender # data_receiver

\* The key of a flow in the three flow registries.
FlowKey(data_sender, data_type, data_receiver) ==
    data_sender \o "#" \o data_type \o "#" \o data_receiver

\* The three flow registries after the flow is registered.
RegisterFlow(st, data_sender, data_type, data_receiver) ==
    LET tmp == FlowKey(data_sender, data_type, data_receiver)
    IN  IF data_sender # "" /\ data_receiver # ""
        THEN [st EXCEPT !.data_flow_completed_arr = AppendOnce(@, tmp)]
        ELSE IF data_sender = "" /\ data_receiver # ""
        THEN [st EXCEPT !.data_flow_no_sender_arr = AppendOnce(@, tmp)]
        ELSE IF data_sender # "" /\ data_receiver = ""
        THEN [st EXCEPT !.data_flow_no_receiver_arr = AppendOnce(@, tmp)]
        ELSE st

\* data_collection_party of a row.
CollectionParty(Output, data_receiver, main_party) ==
    IF Len(Output) > 0
    THEN IF Contains(data_receiver, main_party) \/ rectify_collection_party(data_receiver)
         THEN "First Party"
         ELSE Output[1].DataCategory
    ELSE ""

RECURSIVE CollectionPurpose(_)
\* data_collection_purpose: every DataCategory followed by "; ".
CollectionPurpose(Output) ==
    IF Len(Output) = 0 THEN ""
    ELSE Output[1].DataCategory \o "; " \o CollectionPurpose(Tail(Output))

\* data_collection_method: the DataCategory of the last entry whose
\* InputText holds data_type, else that of the first entry.
CollectionMethod(Output, data_type) ==
    LET hits == {i \in DOMAIN Output : Contains(Output[i].InputText, data_type)}
        found == IF hits = {} THEN ""
                 ELSE Output[CHOOSE i \in hits : \A j \in hits : j <= i].DataCategory
    IN  IF Len(Output) = 0 THEN ""
        ELSE IF found = "" THEN Output[1].DataCategory
        ELSE found

\* G.add_node(n, **attrs) if not G.has_node(n)
EnsureNode(G, n, attrs) == IF has_node(G, n) THEN G ELSE add_node(G, n, attrs)

\* An edge added whether or not the two nodes are connected already.
EnsureEdgeUnguarded(G, u, v, attrs) == add_edge(G, u, v, attrs)

\* G.add_edge(u, v, **attrs) if not G.has_edge(u, v)
EnsureEdge(G, u, v, attrs) == IF has_edge(G, u, v) THEN G ELSE add_edge(G, u, v, attrs)

\* The nodes of a row of the revised builder, added where the graph lacks
\* them; no node is added for an empty data_type.
AddFlowNodes(G, data_sender, data_type, data_receiver, sender_color, receiver_color) ==
    With(EnsureNode(G, data_sender,
             [color |-> sender_color, size |-> 40,
              title |-> IF data_sender = "" THEN "unknown" ELSE data_sender]),
         LAMBDA G1 :
    With(IF data_type # ""
         THEN EnsureNode(G1, data_type,
                  [color |-> "#99ccff", size |-> 20, title |-> data_type, shape |-> "box"])
         ELSE G1, LAMBDA G2 :
        EnsureNode(G2, data_receiver,
            [color |-> receiver_color, size |-> 40, title |-> data_receiver])))

\* The two edges of a row, added where the graph has no edge between the
\* same two nodes in the same direction.
AddFlowEdges(G, data_sender, data_type, data_receiver, attrs_1, attrs_2) ==
    With(EnsureEdge(G, data_sender, data_type, attrs_1), LAMBDA G1 :
        EnsureEdge(G1, data_type, data_receiver, attrs_2))

\* What one iteration of a builder's loop leaves: the accumulators, the
\* exception that ended the run ("" when none), and the normalised triple
\* with the verdict of the validity gate (normalized is FALSE when the run
\* ended before the triple was there).
Outcome(st, error, normalized, data_sender, data_type, data_receiver) ==
    [st |-> st, error |-> error, normalized |-> normalized,
     data_sender |-> data_sender, data_type |-> data_type,
     data_receiver |-> data_receiver,
     valid |-> normalized /\ ValidTriple(data_sender, data_type, data_receiver)]

\* data_category of a row: the DataCategory of the last entry.
DataCategoryOf(data_category_json) ==
    IF data_category_json.none THEN ""
    ELSE IF Len(data_category_json.val.Output) > 0
    THEN data_category_json.val.Output[Len(data_category_json.val.Output)].DataCategory
    ELSE "Unspecified"

\* data_sender and data_receiver of the first flow of a row.
FirstFlow(data) == IF Len(data) > 0 THEN data[1] ELSE [data_sender |-> "", data_receiver |-> ""]

\* data_sender and data_receiver of a row: those of the last flow.
LastFlow(data) == IF Len(data) > 0 THEN data[Len(data)] ELSE [data_sender |-> "", data_receiver |-> ""]

\* data_category_dic[data_type] = data_category, whether data_type is a key
\* or not.
RecordCategoryOverwrite(st, data_type, data_category) ==
    [st EXCEPT !.data_category_dic = DictPut(@, data_type, data_category)]

\* data_category_dic[data_type] = data_category, for a data_type not yet a key.
RecordCategory(st, data_type, data_category) ==
    IF data_type \in DOMAIN st.data_category_dic THEN st
    ELSE [st EXCEPT !.data_category_dic = DictPut(@, data_type, data_category)]

\* purpose_color of a row.
PurposeColor(data_collection_purpose) ==
    IF data_collection_purpose \in DOMAIN purpose_color_map
    THEN purpose_color_map[data_collection_purpose]
    ELSE "ff000000"

\* The attributes of the two edges of a row of the revised builder.
RevisedEdgeAttrs(raw_idx, data_collection_purpose) ==
    [group |-> raw_idx, color |-> PurposeColor(data_collection_purpose),
     description |-> text_dictrionary(raw_idx),
     title |-> data_collection_purpose, arrows |-> "to"]

\* An output row appended unless the list holds a row of the same flow.
AppendOutputRowOnce(data_output_arr, data_output) ==
    IF \E i \in DOMAIN data_output_arr :
          /\ data_output_arr[i][2] = data_output[2]
          /\ data_output_arr[i][4] = data_output[4]
          /\ data_output_arr[i][5] = data_output[5]
    THEN data_output_arr
    ELSE Append(data_output_arr, data_output)

\* data_output_arr.append(data_output)
AppendOutputRow(data_output_arr, data_output) == Append(data_output_arr, data_output)

\* A row that passed the validity gate and whose cells all parsed: the
\* parties are classified, the graph grows and the output row is appended.
RevisedAccept(st, row, main_party, n, data_category, data_collection_party, data_collection_purpose, data_collection_method) ==
    With(get_entity_property(n.data_sender, data_collection_party, main_party,
             st.first_party_arr, st.third_party_arr, st.user_party_arr),
         LAMBDA of_sender :
    With(get_entity_property(n.data_receiver, data_collection_party, main_party,
             of_sender.first, of_sender.third, of_sender.user),
         LAMBDA of_receiver :
    With(RevisedEdgeAttrs(row.text_idx, data_collection_purpose), LAMBDA attrs :
        [st EXCEPT
            !.first_party_arr = of_receiver.first,
            !.third_party_arr = of_receiver.third,
            !.user_party_arr = of_receiver.user,
            !.G = AddFlowEdges(
                      AddFlowNodes(@, n.data_sender, n.data_type, n.data_receiver,
                          of_sender.color, of_receiver.color),
                      n.data_sender, n.data_type, n.data_receiver, attrs, attrs),
            !.data_output_arr = AppendOutputRow(@,
                <<text_dictrionary(row.text_idx), n.data_type, data_category,
                  n.data_sender, n.data_receiver, data_collection_party,
                  data_collection_purpose, data_collection_method>>)])))

\* The loop body of get_data_flow_graph_revised from the validity gate on.
RevisedGate(st, row, main_party, n, data_category) ==
    IF n.err
    THEN Outcome(st, "IndexError", FALSE, "", "", "")
    ELSE IF ~ValidTriple(n.data_sender, n.data_type, n.data_receiver)
    THEN Outcome(st, "", TRUE, n.data_sender, n.data_type, n.data_receiver)
    ELSE With(RegisterFlow(st, n.data_sender, n.data_type, n.data_receiver), LAMBDA st3 :
        IF \/ load_json_data(row.data_collection_party).none
           \/ load_json_data(row.data_collection_purpose).none
           \/ load_json_data(row.data_collection_method).none
        THEN Outcome(st3, "TypeError", TRUE, n.data_sender, n.data_type, n.data_receiver)
        ELSE Outcome(
                 RevisedAccept(st3, row, main_party, n, data_category,
                     CollectionParty(load_json_data(row.data_collection_party).val.Output,
                         n.data_receiver, main_party),
                     CollectionPurpose(load_json_data(row.data_collection_purpose).val.Output),
                     CollectionMethod(load_json_data(row.data_collection_method).val.Output,
                         n.data_type)),
                 "", TRUE, n.data_sender, n.data_type, n.data_receiver))

\* One iteration of the loop of get_data_flow_graph_revised over the rows
\* of the input CSV.  A cell that did not parse is None, and the first
\* subscript of it raises TypeError; only data_category_json is tested.
RevisedRow(st, row, main_party) ==
    With(DataCategoryOf(load_json_data(row.data_category)), LAMBDA data_category :
    With(RecordCategory(st, row.data_type, data_category), LAMBDA st1 :
        IF load_json_data(row.data_flow).none
        THEN Outcome(st1, "TypeError", FALSE, "", "", "")
        ELSE With(LastFlow(load_json_data(row.data_flow).val.data), LAMBDA flow :
             With(NormalizeTriple(row.data_type, flow.data_sender, flow.data_receiver,
                      st1.abbreviation_dict), LAMBDA n :
                 RevisedGate([st1 EXCEPT !.abbreviation_dict = n.dict], row,
                     main_party, n, data_category)))))

\* ------------------------------------------------------------ rankings

\* sorted(items, key=score, reverse=reverse) as far as item goes: the
\* items already placed, with item put behind every item that does not
\* sort after it, so that equal scores keep their order.
InsertSorted(placed, item, reverse) ==
    With(Cardinality({i \in DOMAIN placed :
             IF reverse THEN placed[i][2] >= item[2] ELSE placed[i][2] <= item[2]}),
         LAMBDA k :
        SubSeq(placed, 1, k) \o <<item>> \o SubSeq(placed, k + 1, Len(placed)))

\* sorted(input_data.items(), key=lambda x: x[1], reverse=reverse); an item
\* is <<key, score>>.
RECURSIVE Sorted(_, _)
Sorted(items, reverse) ==
    IF items = <<>> THEN <<>>
    ELSE InsertSorted(Sorted(SubSeq(items, 1, Len(items) - 1), reverse),
                      items[Len(items)], reverse)

\* process(input_data, top_n)
process(input_data, top_n) ==
    IF top_n > 0
    THEN Slice(Sorted(input_data, TRUE), 0, top_n)
    ELSE Slice(Sorted(input_data, FALSE), 0, top_n)

\* The degree of a node of a MultiDiGraph: the edges out of it and into it.
Degree(G, n) ==
    Cardinality({i \in DOMAIN G.edges : G.edges[i].u = n})
    + Cardinality({i \in DOMAIN G.edges : G.edges[i].v = n})

\* nx.degree_centrality(G) as items in node order.  The values are
\* degree / (len(G) - 1), and 1 for every node when len(G) <= 1; the item
\* holds the numerator, the denominator being the same for all nodes.
degree_centrality(G) ==
    [i \in DOMAIN G.nodes |->
        <<G.nodes[i].id, IF Len(G.nodes) <= 1 THEN 1 ELSE Degree(G, G.nodes[i].id)>>]

\* get_network_stats(G, option, top_n) for option == 'centrality'.
get_network_stats(G, option, top_n) == process(degree_centrality(G), top_n)

\* get_percentage(input_data, entity_arr): count / len(input_data) as
\* <<count, len(input_data)>>, the division raising when the ranking is empty.
get_percentage(input_data, entity_arr) ==
    [fault |-> IF Len(input_data) = 0 THEN "ZeroDivisionError" ELSE "",
     value |-> <<Cardinality({i \in DOMAIN input_data : In(input_data[i][1], entity_arr)}),
                 Len(input_data)>>]

\* ------------------------------------------------------- post_processing

\* str.split(sep) for a separator of one character.
RECURSIVE SplitOnAcc(_, _, _, _)
SplitOnAcc(s, sep, cur, acc) ==
    IF s = "" THEN Append(acc, cur)
    ELSE IF Char(s, 1) = sep THEN SplitOnAcc(Tail(s), sep, "", Append(acc, cur))
    ELSE SplitOnAcc(Tail(s), sep, cur \o Char(s, 1), acc)

SplitOn(s, sep) == SplitOnAcc(s, sep, "", <<>>)

\* The counter a completed flow increments: the first branch of the
\* if/elif chain that its sender and receiver satisfy, "" when none does.
TransitionOf(sender, receiver, first_party_arr, third_party_arr, user_party_arr) ==
    IF In(sender, user_party_arr) /\ In(receiver, first_party_arr) THEN "u_2_f"
    ELSE IF In(sender, user_party_arr) /\ In(receiver, third_party_arr) THEN "u_2_t"
    ELSE IF In(sender, first_party_arr) /\ In(receiver, user_party_arr) THEN "f_2_u"
    ELSE IF In(sender, first_party_arr) /\ In(receiver, third_party_arr) THEN "f_2_t"
    ELSE IF In(sender, first_party_arr) /\ In(receiver, first_party_arr) THEN "f_2_f"
    ELSE IF In(sender, third_party_arr) /\ In(receiver, third_party_arr) THEN "t_2_t"
    ELSE IF In(sender, third_party_arr) /\ In(receiver, first_party_arr) THEN "t_2_f"
    ELSE ""

\* The counter each key of data_flow_completed_arr increments, the sender
\* and the receiver being parts 0 and 2 of the key split at '#'.
Transitions(st) ==
    [i \in DOMAIN st.data_flow_completed_arr |->
        With(SplitOn(st.data_flow_completed_arr[i], "#"), LAMBDA tmp_arr :
            TransitionOf(tmp_arr[1], tmp_arr[3], st.first_party_arr,
                         st.third_party_arr, st.user_party_arr))]

TransitionNames == {"u_2_f", "u_2_t", "f_2_u", "f_2_t", "f_2_f", "t_2_t", "t_2_f"}

\* The seven counters after the loop over data_flow_completed_arr.
Counters(st) ==
    With(Transitions(st), LAMBDA labels :
        [c \in TransitionNames |-> Cardinality({i \in DOMAIN labels : labels[i] = c})])

\* The statistics of a run that raised at the given line.
Faulted(line, total_data_flows, counters) ==
    [fault |-> "ZeroDivisionError", line |-> line, total_data_flows |-> total_data_flows,
     counters |-> counters, transparency_score |-> <<>>, third_party_score |-> <<>>,
     scores |-> <<>>]

\* list(d.keys()), the order of the keys left open.
RECURSIVE Keys(_)
Keys(d) ==
    IF DOMAIN d = {} THEN <<>>
    ELSE With(CHOOSE k \in DOMAIN d : TRUE, LAMBDA k :
             <<k>> \o Keys([x \in (DOMAIN d) \ {k} |-> d[x]]))

\* The three overlap scores, each get_percentage of the same ranking.
OverlapScores(st, ranking) ==
    <<get_percentage(ranking, st.first_party_arr),
      get_percentage(ranking, st.third_party_arr),
      get_percentage(ranking, Keys(st.data_category_dic))>>

\* The flows without receiver or sender over all the flows.
TransparencyOverTotal(st) ==
    <<Len(st.data_flow_no_receiver_arr) + Len(st.data_flow_no_sender_arr),
      Len(st.data_flow_completed_arr) + Len(st.data_flow_no_sender_arr)
          + Len(st.data_flow_no_receiver_arr)>>

\* transparency_score = (len(data_flow_no_receiver_arr) +
\* len(data_flow_no_sender_arr)) / len(data_flow_completed_arr)
TransparencyScore(st) ==
    <<Len(st.data_flow_no_receiver_arr) + Len(st.data_flow_no_sender_arr),
      Len(st.data_flow_completed_arr)>>

\* post_processing from the counters on; a quotient is <<numerator,
\* denominator>>, and a zero denominator raises ZeroDivisionError there.
PostStats(st, counters, total_data_flows, option, top_n) ==
    IF total_data_flows = 0 THEN Faulted(958, total_data_flows, counters)
    ELSE IF Len(st.data_flow_completed_arr) = 0 THEN Faulted(975, total_data_flows, counters)
    ELSE IF Len(st.first_party_arr) + Len(st.user_party_arr) + Len(st.third_party_arr) = 0
    THEN Faulted(979, total_data_flows, counters)
    ELSE IF Len(get_network_stats(st.G, option, top_n)) = 0
    THEN Faulted(680, total_data_flows, counters)
    ELSE [fault |-> "", line |-> 0, total_data_flows |-> total_data_flows,
          counters |-> counters,
          transparency_score |-> TransparencyScore(st),
          third_party_score |->
              <<Len(st.third_party_arr),
                Len(st.first_party_arr) + Len(st.user_party_arr) + Len(st.third_party_arr)>>,
          scores |-> OverlapScores(st, get_network_stats(st.G, option, top_n))]

\* post_processing(..., option, top_n) on what the builder returned.
post_processing(st, option, top_n) ==
    PostStats(st, Counters(st),
        Len(st.data_flow_completed_arr) + Len(st.data_flow_no_sender_arr)
            + Len(st.data_flow_no_receiver_arr),
        option, top_n)

\* -------------------------------------------- get_data_flow_graph_simple

\* The accumulators of get_data_flow_graph_simple before the first row.
FreshSimple == [G |-> EmptyGraph, abbreviation_dict |-> EmptyDict]

\* The attributes of a sender or receiver node of the simple builder.
SimplePartyAttrs(entity) ==
    [size |-> 40, title |-> IF entity = "" THEN "unknown" ELSE entity]

\* The nodes of a row of the simple builder.
AddSimpleNodes(G, data_sender, data_type, data_receiver) ==
    With(EnsureNode(G, data_sender, SimplePartyAttrs(data_sender)), LAMBDA G1 :
    With(IF data_type # ""
         THEN EnsureNode(G1, data_type,
                  [color |-> "#99ccff", size |-> 20, title |-> data_type, shape |-> "box"])
         ELSE G1, LAMBDA G2 :
        EnsureNode(G2, data_receiver, SimplePartyAttrs(data_receiver))))

\* A loop body whose gate lets a row with data_sender == data_receiver pass.
SimpleGateTypeOnly(st, row, n) ==
    IF n.err
    THEN Outcome(st, "IndexError", FALSE, "", "", "")
    ELSE IF ~ValidTripleTypeOnly(n.data_sender, n.data_type, n.data_receiver)
    THEN Outcome(st, "", TRUE, n.data_sender, n.data_type, n.data_receiver)
    ELSE Outcome(
             [st EXCEPT !.G =
                 AddFlowEdges(
                     AddSimpleNodes(@, n.data_sender, n.data_type, n.data_receiver),
                     n.data_sender, n.data_type, n.data_receiver,
                     [arrows |-> "to"],
                     [group |-> row.text_idx, description |-> text_dictrionary(row.text_idx),
                      arrows |-> "to"])],
             "", TRUE, n.data_sender, n.data_type, n.data_receiver)

\* The loop body of get_data_flow_graph_simple from the validity gate on.
SimpleGate(st, row, n) ==
    IF n.err
    THEN Outcome(st, "IndexError", FALSE, "", "", "")
    ELSE IF ~ValidTriple(n.data_sender, n.data_type, n.data_receiver)
    THEN Outcome(st, "", TRUE, n.data_sender, n.data_type, n.data_receiver)
    ELSE Outcome(
             [st EXCEPT !.G =
                 AddFlowEdges(
                     AddSimpleNodes(@, n.data_sender, n.data_type, n.data_receiver),
                     n.data_sender, n.data_type, n.data_receiver,
                     [arrows |-> "to"],
                     [group |-> row.text_idx, description |-> text_dictrionary(row.text_idx),
                      arrows |-> "to"])],
             "", TRUE, n.data_sender, n.data_type, n.data_receiver)

\* One iteration of the loop of get_data_flow_graph_simple.
SimpleRow(st, row) ==
    IF load_json_data(row.data_flow).none
    THEN Outcome(st, "TypeError", FALSE, "", "", "")
    ELSE With(LastFlow(load_json_data(row.data_flow).val.data), LAMBDA flow :
         With(NormalizeTriple(row.data_type, flow.data_sender, flow.data_receiver,
                  st.abbreviation_dict), LAMBDA n :
             SimpleGate([st EXCEPT !.abbreviation_dict = n.dict], row, n)))

\* ----------------------------------------------------- networkx graphs

\* The sequences of seqs, one after the other.
RECURSIVE Concat(_)
Concat(seqs) == IF seqs = <<>> THEN <<>> ELSE Head(seqs) \o Concat(Tail(seqs))

\* The ids of the nodes of G, in the order the nodes were added.
NodeIds(G) == [i \in DOMAIN G.nodes |-> G.nodes[i].id]

\* How many edges of the MultiDiGraph lead from u to v.
Multiplicity(G, u, v) ==
    Cardinality({i \in DOMAIN G.edges : G.edges[i].u = u /\ G.edges[i].v = v})

\* An undirected graph that keeps antiparallel edges apart.
UndirectedMultiplicitySum(G, u, v) ==
    IF u = v THEN Multiplicity(G, u, v) ELSE Multiplicity(G, u, v) + Multiplicity(G, v, u)

\* The number of edges G.to_undirected() has between u and v.  The edge
\* (v, u, key) of the MultiDiGraph is the edge (u, v, key) of the
\* MultiGraph, so antiparallel edges with one key become one edge and
\* parallel edges stay apart.
UndirectedMultiplicity(G, u, v) == Max(Multiplicity(G, u, v), Multiplicity(G, v, u))

\* G.to_undirected() of a MultiDiGraph: the nodes, and the unordered pairs
\* of nodes with the number of edges between them.
to_undirected(G) ==
    [nodes |-> NodeIds(G),
     mult |-> [pair \in {{G.nodes[i].id, G.nodes[j].id} : i, j \in DOMAIN G.nodes} |->
                  With(CHOOSE u \in pair : TRUE, LAMBDA u :
                      With(IF pair = {u} THEN u ELSE CHOOSE v \in pair : v # u, LAMBDA v :
                          UndirectedMultiplicity(G, u, v)))]]

\* The nodes an edge of the undirected graph joins to a node of seen.
Adjacent(U, seen) ==
    {n \in Range(U.nodes) : \E m \in seen : U.mult[{n, m}] > 0}

\* The nodes of the connected component that holds the nodes of seen.
RECURSIVE ComponentOf(_, _)
ComponentOf(U, seen) ==
    IF Adjacent(U, seen) \subseteq seen THEN seen
    ELSE ComponentOf(U, seen \cup Adjacent(U, seen))

\* nx.connected_components(U): the components in the order of their first
\* nodes, each as the list of its nodes in node order.
connected_components(U) ==
    Concat([i \in DOMAIN U.nodes |->
        With(ComponentOf(U, {U.nodes[i]}), LAMBDA component :
            IF \E j \in 1..(i - 1) : U.nodes[j] \in component THEN <<>>
            ELSE <<SelectSeq(U.nodes, LAMBDA n : n \in component)>>)])

\* The sum of the numbers f maps the elements of S to.
RECURSIVE SumOver(_, _)
SumOver(S, f) ==
    IF S = {} THEN 0
    ELSE With(CHOOSE x \in S : TRUE, LAMBDA x : f[x] + SumOver(S \ {x}, f))

\* U.subgraph(component).number_of_edges()
number_of_edges(U, component) ==
    SumOver({pair \in DOMAIN U.mult : pair \subseteq Range(component)}, U.mult)

\* nx.is_tree(U.subgraph(component)); a component is connected.
is_tree(U, component) == Len(component) - 1 = number_of_edges(U, component)

\* The trees finding_tree found in the undirected graph.
TreesOf(U) ==
    SelectSeq(connected_components(U), LAMBDA component : is_tree(U, component))

\* finding_tree(G): the node lists of the components that are trees.
finding_tree(G) == TreesOf(to_undirected(G))

\* -------------------------------------------- longest_path_multidigraph

\* The edges of the MultiDiGraph as G.edges(data=True) yields them: node by
\* node in node order, the edges out of each node.  (networkx groups the
\* edges out of a node by their target; the weights and the order in which
\* the pairs first occur are the same.)
EdgesBySource(G) ==
    Concat([i \in DOMAIN G.nodes |->
        SelectSeq(G.edges, LAMBDA e : e.u = G.nodes[i].id)])

\* Whether the edge joins u and v, in either direction.
Joins(e, u, v) == (e.u = u /\ e.v = v) \/ (e.u = v /\ e.v = u)

\* An nx.Graph or nx.DiGraph with no node.
EmptyWeighted == [nodes |-> <<>>, edges |-> <<>>]

\* The nodes with u and v added where missing.
WithNodes(nodes, u, v) == AppendOnce(AppendOnce(nodes, u), v)

\* The step of the first loop: the weight of the edge between u and v
\* gains 1, or the edge is added with weight 1.
AddWeighted(W, u, v) ==
    IF \E i \in DOMAIN W.edges : Joins(W.edges[i], u, v)
    THEN [W EXCEPT !.edges =
             [i \in DOMAIN W.edges |->
                 IF Joins(W.edges[i], u, v)
                 THEN [W.edges[i] EXCEPT !.weight = @ + 1]
                 ELSE W.edges[i]]]
    ELSE [nodes |-> WithNodes(W.nodes, u, v),
          edges |-> Append(W.edges, [u |-> u, v |-> v, weight |-> 1])]

\* G_weighted after the first loop went through the given edges.
RECURSIVE WeightedFrom(_, _)
WeightedFrom(W, edges) ==
    IF edges = <<>> THEN W
    ELSE WeightedFrom(AddWeighted(W, Head(edges).u, Head(edges).v), Tail(edges))

\* The other end of an edge that touches n.
OtherEnd(e, n) == IF e.u = n THEN e.v ELSE e.u

\* G_weighted.edges(data=True) of the undirected graph: node by node in
\* node order, the edges of the node to the nodes not gone through yet,
\* each reported from that node.
GraphEdges(W) ==
    Concat([i \in DOMAIN W.nodes |->
        With(SelectSeq(W.edges, LAMBDA e :
                 /\ (e.u = W.nodes[i] \/ e.v = W.nodes[i])
                 /\ ~In(OtherEnd(e, W.nodes[i]), SubSeq(W.nodes, 1, i - 1))),
             LAMBDA touching :
            [k \in DOMAIN touching |->
                [u |-> W.nodes[i], v |-> OtherEnd(touching[k], W.nodes[i]),
                 weight |-> touching[k].weight]])])

\* The DiGraph that the second loop builds from the given edges.
RECURSIVE DiGraphFrom(_, _)
DiGraphFrom(D, edges) ==
    IF edges = <<>> THEN D
    ELSE DiGraphFrom(
             [nodes |-> WithNodes(D.nodes, Head(edges).u, Head(edges).v),
              edges |-> Append(D.edges, Head(edges))],
             Tail(edges))

\* The edges out of the nodes of a generation, in the order the
\* topological sort goes through them.
OutEdges(D, generation) ==
    Concat([i \in DOMAIN generation |->
        SelectSeq(D.edges, LAMBDA e : e.u = generation[i])])

\* The in-degrees after the edges are taken away, and the nodes whose
\* in-degree reached 0, in the order it did.
RECURSIVE Relax(_, _, _)
Relax(edges, indegree, zero) ==
    IF edges = <<>> THEN [indegree |-> indegree, zero |-> zero]
    ELSE Relax(Tail(edges),
               [indegree EXCEPT ![Head(edges).v] = @ - 1],
               IF indegree[Head(edges).v] = 1 THEN Append(zero, Head(edges).v) ELSE zero)

\* The nodes that nx.topological_sort yields, generation after generation.
RECURSIVE Generations(_, _, _, _)
Generations(D, indegree, generation, done) ==
    IF generation = <<>> THEN done
    ELSE With(Relax(OutEdges(D, generation), indegree, <<>>), LAMBDA r :
             Generations(D, r.indegree, r.zero, done \o generation))

\* How many edges lead into v.
InDegree(D, v) == Cardinality({i \in DOMAIN D.edges : D.edges[i].v = v})

\* nx.topological_sort(D) as far as it gets: every node when D is acyclic.
topological_sort(D) ==
    Generations(D, [n \in Range(D.nodes) |-> InDegree(D, n)],
                SelectSeq(D.nodes, LAMBDA n : InDegree(D, n) = 0), <<>>)

\* nx.is_directed_acyclic_graph(D)
is_directed_acyclic_graph(D) == Len(topological_sort(D)) = Len(D.nodes)

\* max(us, key=lambda x: x[0]): the first of the pairs with the greatest
\* first member.
FirstMax(us) ==
    us[CHOOSE i \in DOMAIN us :
           /\ \A j \in DOMAIN us : us[j][1] <= us[i][1]
           /\ \A j \in 1..(i - 1) : us[j][1] < us[i][1]]

\* dist[v] of nx.dag_longest_path: the length of the longest path that
\* ends in v and the node before v on it, v itself when v has no
\* predecessor.
DistOf(D, dist, v) ==
    With(SelectSeq(D.edges, LAMBDA e : e.v = v), LAMBDA into :
        IF into = <<>> THEN <<0, v>>
        ELSE FirstMax([k \in DOMAIN into |->
                 <<dist[into[k].u][1] + into[k].weight, into[k].u>>]))

\* dist after the nodes of order, taken in topological order.
RECURSIVE Distances(_, _, _)
Distances(D, order, dist) ==
    IF order = <<>> THEN dist
    ELSE Distances(D, Tail(order), DictPut(dist, Head(order), DistOf(D, dist, Head(order))))

\* The path that ends in v, followed back through dist.
RECURSIVE PathTo(_, _)
PathTo(dist, v) ==
    IF dist[v][2] = v THEN <<v>> ELSE Append(PathTo(dist, dist[v][2]), v)

\* The path and its length, from dist and the topological order.
LongestFrom(order, dist) ==
    With(FirstMax([k \in DOMAIN order |-> <<dist[order[k]][1], order[k]>>]), LAMBDA last_node :
        [path |-> PathTo(dist, last_node[2]), length |-> last_node[1]])

\* nx.dag_longest_path(D, weight='weight') and nx.dag_longest_path_length
\* of an acyclic D.
dag_longest_path(D) ==
    IF D.nodes = <<>> THEN [path |-> <<>>, length |-> 0]
    ELSE With(topological_sort(D), LAMBDA order :
             LongestFrom(order, Distances(D, order, [x \in {} |-> <<>>])))

\* The edges of a spanning forest, Kruskal's way: the edges in ascending
\* order of weight, each kept when its ends are not connected yet.
RECURSIVE Kruskal(_, _, _)
Kruskal(edges, component, kept) ==
    IF edges = <<>> THEN kept
    ELSE IF component[Head(edges).u] = component[Head(edges).v]
    THEN Kruskal(Tail(edges), component, kept)
    ELSE Kruskal(Tail(edges),
             [n \in DOMAIN component |->
                 IF component[n] = component[Head(edges).v]
                 THEN component[Head(edges).u] ELSE component[n]],
             Append(kept, Head(edges)))

\* nx.minimum_spanning_tree(W)
minimum_spanning_tree(W) ==
    With(Sorted([k \in DOMAIN W.edges |-> <<W.edges[k], W.edges[k].weight>>], FALSE),
         LAMBDA by_weight :
        [nodes |-> W.nodes,
         edges |-> Kruskal([k \in DOMAIN by_weight |-> by_weight[k][1]],
                           [n \in Range(W.nodes) |-> n], <<>>)])

\* nx.DiGraph(T) of an undirected T: each edge in both directions.
DiGraphOf(T) ==
    [nodes |-> T.nodes,
     edges |-> Concat([i \in DOMAIN T.nodes |->
         With(SelectSeq(T.edges, LAMBDA e : e.u = T.nodes[i] \/ e.v = T.nodes[i]),
              LAMBDA touching :
             [k \in DOMAIN touching |->
                 [u |-> T.nodes[i], v |-> OtherEnd(touching[k], T.nodes[i]),
                  weight |-> touching[k].weight]])])]

\* The last step: nx.dag_longest_path raises NetworkXUnfeasible when the
\* graph handed to it has a cycle.
LongestPathOf(D, fallback) ==
    IF is_directed_acyclic_graph(D)
    THEN [fault |-> "", fallback |-> fallback, acyclic |-> TRUE,
          longest_path |-> dag_longest_path(D).path,
          longest_path_length |-> dag_longest_path(D).length]
    ELSE [fault |-> "NetworkXUnfeasible", fallback |-> fallback, acyclic |-> FALSE,
          longest_path |-> <<>>, longest_path_length |-> 0]

\* The steps from the DAG on: the spanning tree replaces a DAG that is not
\* acyclic.
LongestPathFrom(W, DAG) ==
    IF is_directed_acyclic_graph(DAG)
    THEN LongestPathOf(DAG, FALSE)
    ELSE LongestPathOf(DiGraphOf(minimum_spanning_tree(W)), TRUE)

\* The steps from G_weighted on.
LongestPathWeighted(W) == LongestPathFrom(W, DiGraphFrom(EmptyWeighted, GraphEdges(W)))

\* longest_path_multidigraph(G)
longest_path_multidigraph(G) ==
    LongestPathWeighted(WeightedFrom(EmptyWeighted, EdgesBySource(G)))

\* ------------------------------------------------- verification sample

\* Draws with replacement: a position can be drawn again.
choice_with_replacement(n, size) == [1..size -> 0..(n - 1)]

\* np.random.choice(np.arange(0, n), size, replace=False): the draws it
\* can return, each a list of size different positions in any order.
choice(n, size) ==
    {samples \in [1..size -> 0..(n - 1)] :
        \A i, j \in 1..size : samples[i] = samples[j] => i = j}

\* random_sampling(input_data, size): the results it can return, each with
\* the positions drawn.
random_sampling(input_data, size) ==
    IF Len(input_data) >= size
    THEN {[samples |-> samples,
           output |-> [k \in 1..size |-> input_data[samples[k] + 1]]] :
             samples \in choice(Len(input_data), size)}
    ELSE {[samples |-> <<>>, output |-> input_data]}

\* int(len(input_data) * sampling_rate), sampling_rate being the quotient
\* <<numerator, denominator>> of two non-negative numbers.
sampling_size(input_data, sampling_rate) ==
    (Len(input_data) * sampling_rate[1]) \div sampling_rate[2]

\* The row of 15 columns write_row writes for a sampled row.
VerificationRow(item) ==
    <<item[1], item[2], " ", item[3], " ", item[4], item[2], item[5], " ", item[6],
      " ", item[7], " ", item[8], " ">>

\* save_verification2csv(output_csv, input_data, sampling_rate): what it
\* can leave behind, the rows written after the two header rows included.
save_verification2csv(input_data, sampling_rate) ==
    {[input_data |-> input_data, sampling_rate |-> sampling_rate,
      sampling_size |-> sampling_size(input_data, sampling_rate),
      samples |-> drawn.samples, sample_data |-> drawn.output,
      written |-> [k \in DOMAIN drawn.output |-> VerificationRow(drawn.output[k])]] :
        drawn \in random_sampling(input_data, sampling_size(input_data, sampling_rate))}

\* ------------------------------------------------------------ input rows

\* The main_party the builders are called with.
MainParty == "audi"

\* A row of the input CSV: text_idx, data_type and the five JSON cells.
Row(text_idx, data_type, category, flow, party, purpose, method) ==
    [text_idx |-> text_idx, data_type |-> data_type, data_category |-> category,
     data_flow |-> flow, data_collection_party |-> party,
     data_collection_purpose |-> purpose, data_collection_method |-> method]

Category(name) == [DataCategory |-> name, InputText |-> "we collect it"]

OutputCell(names) == ObjectCell([Output |-> [i \in DOMAIN names |-> Category(names[i])]])

Flow(data_sender, data_receiver) ==
    [data_sender |-> data_sender, data_receiver |-> data_receiver]

FlowCell(flows) == ObjectCell([data |-> flows])

\* A row whose five cells all parse, carrying one flow.
PlainRow(text_idx, data_type, data_sender, data_receiver) ==
    Row(text_idx, data_type, OutputCell(<<"Contact">>),
        FlowCell(<<Flow(data_sender, data_receiver)>>),
        OutputCell(<<"Third Party">>), OutputCell(<<"Marketing">>),
        OutputCell(<<"Online form">>))

\* The parties the rows name: none, the main party, the user, another
\* company, and a name that holds the registries' delimiter.
Entities == {"", "audi", "you", "dhl", "#"}

\* The raw data types: none, a plain one, one that holds the delimiter, and
\* one that normalisation turns into the name of a party.
DataTypes == {"", "email", "#email", "Dhl"}

\* Rows that differ in the flow they carry.
FlowRows ==
    {PlainRow("1", "email", s, r) : s \in Entities, r \in Entities}
    \cup {PlainRow("1", t, f[1], f[2]) :
            t \in DataTypes,
            f \in {<<"you", "audi">>, <<"", "dhl">>, <<"dhl", "">>, <<"you", "dhl">>}}
    \cup {PlainRow("2", "email", "you", r) : r \in {"audi", "dhl"}}
    \cup {Row("1", "email", OutputCell(<<"Contact">>),
              FlowCell(<<Flow("dhl", "you"), Flow("you", "unspecified party")>>),
              OutputCell(<<"Unspecified">>), OutputCell(<<"Marketing">>),
              OutputCell(<<"Online form">>))}

\* The cells a JSON column can hold, besides the one of PlainRow.
OtherCells(plain) ==
    {InvalidCell, OutputCell(<<>>), OutputCell(<<"Location", "Other">>),
     QuotedCell(plain.val)}

\* Rows that differ from PlainRow("1", "email", "you", "audi") in one cell.
CellRows ==
    LET base == PlainRow("1", "email", "you", "audi")
    IN  {[base EXCEPT !.data_category = c] : c \in OtherCells(base.data_category)}
        \cup {[base EXCEPT !.data_flow = c] : c \in {InvalidCell, FlowCell(<<>>)}}
        \cup {[base EXCEPT !.data_collection_party = c] :
                 c \in OtherCells(base.data_collection_party)}
        \cup {[base EXCEPT !.data_collection_purpose = c] :
                 c \in OtherCells(base.data_collection_purpose)}
        \cup {[base EXCEPT !.data_collection_method = c] :
                 c \in OtherCells(base.data_collection_method)}

Rows == FlowRows \cup CellRows

\* --------------------------------------------------------- specification

\* Nothing seen yet.
NoRow ==
    [n |-> 0, row |-> <<>>, st |-> FreshRevised, error |-> "", normalized |-> FALSE, valid |-> FALSE,
     data_sender |-> "", data_type |-> "", data_receiver |-> "", changed |-> FALSE]

\* Whether the iteration changed the graph, a flow registry or the output rows.
Changed(before, after) ==
    \/ before.G # after.G
    \/ before.data_flow_completed_arr # after.data_flow_completed_arr
    \/ before.data_flow_no_sender_arr # after.data_flow_no_sender_arr
    \/ before.data_flow_no_receiver_arr # after.data_flow_no_receiver_arr
    \/ before.data_output_arr # after.data_output_arr

Seen(n, row, out, changed) ==
    [n |-> n, row |-> row, st |-> out.st, error |-> out.error, normalized |-> out.normalized,
     valid |-> out.valid, data_sender |-> out.data_sender,
     data_type |-> out.data_type, data_receiver |-> out.data_receiver,
     changed |-> changed]

\* A variable of a part of the program that the specification leaves out.
Idle == [idle |-> TRUE]

\* The values post_processing is called with.
PostTopN == {0, 1, 10}

Init ==
    /\ pc = "build"
    /\ rev = FreshRevised
    /\ last = NoRow
    /\ stats = Idle
    /\ simple = Idle
    /\ metric = Idle
    /\ ranked = Idle
    /\ call = Idle

\* get_data_flow_graph_revised reads the next row of the CSV.
ReadRow ==
    /\ pc = "build"
    /\ last.n < MaxRows
    /\ \E row \in Rows :
          /\ last' = With(RevisedRow(rev, row, MainParty), LAMBDA out :
                         Seen(last.n + 1, row, out, Changed(rev, out.st)))
          /\ rev' = last'.st
          /\ pc' = IF last'.error = "" THEN "build" ELSE "aborted"
    /\ UNCHANGED <<simple, stats, metric, ranked, call>>

\* The CSV has no more rows: the builder returns and post_processing
\* computes the statistics of the document.
PostProcessing ==
    /\ pc = "build"
    /\ \E top_n \in PostTopN :
          stats' = post_processing(rev, "centrality", top_n)
    /\ pc' = IF stats'.fault = "" THEN "post_done" ELSE "post_fault"
    /\ UNCHANGED <<rev, last, simple, metric, ranked, call>>

Next == ReadRow \/ PostProcessing

Spec == Init /\ [][Next]_vars

\* ------------------------------------------- specification of process

\* The rankings of n nodes: the items of a dict whose keys are the nodes
\* "n1" .. and whose values are their scores.
Rankings(n) ==
    {[i \in 1..n |-> <<"n" \o ToString(i), score[i]>>] :
        score \in [1..n -> 0..MaxScore]}

InitProcess ==
    /\ pc = "call"
    /\ \E n \in 0..MaxRank, top_n \in (0 - MaxTopN)..MaxTopN :
          \E input_data \in Rankings(n) :
             ranked = [input_data |-> input_data, top_n |-> top_n, sorted_results |-> <<>>]
    /\ rev = Idle
    /\ last = Idle
    /\ stats = Idle
    /\ simple = Idle
    /\ metric = Idle
    /\ call = Idle

\* process(input_data, top_n) returns.
Process ==
    /\ pc = "call"
    /\ ranked' = [ranked EXCEPT !.sorted_results = process(ranked.input_data, ranked.top_n)]
    /\ pc' = "returned"
    /\ UNCHANGED <<rev, last, stats, simple, metric, call>>

NextProcess == Process

SpecProcess == InitProcess /\ [][NextProcess]_vars

\* ------------------------------- specification of the graph analytics

\* The names the rows of the simple builder's documents use, each as a
\* data type, a sender or a receiver.
Names == {"", "you", "audi", "email"}

\* The rows of these documents: every flow of three different names, a
\* flow that the validity gate rejects, and a row whose flow cell does
\* not parse.
SimpleRows ==
    {PlainRow("1", f[1], f[2], f[3]) :
        f \in {g \in Names \X Names \X Names : ValidTriple(g[2], g[1], g[3])}}
    \cup {PlainRow("1", "email", "you", "you")}
    \cup {[PlainRow("1", "email", "you", "audi") EXCEPT !.data_flow = InvalidCell]}

InitMetrics ==
    /\ pc = "build"
    /\ simple = FreshSimple
    /\ last = [NoRow EXCEPT !.st = FreshSimple]
    /\ metric = Idle
    /\ rev = Idle
    /\ stats = Idle
    /\ ranked = Idle
    /\ call = Idle

\* get_data_flow_graph_simple reads the next row of the CSV.
ReadSimpleRow ==
    /\ pc = "build"
    /\ last.n < MaxRows
    /\ \E row \in SimpleRows :
          /\ last' = With(SimpleRow(simple, row), LAMBDA out :
                         Seen(last.n + 1, row, out, simple.G # out.st.G))
          /\ simple' = last'.st
          /\ pc' = IF last'.error = "" THEN "build" ELSE "aborted"
    /\ UNCHANGED <<rev, stats, metric, ranked, call>>

\* The CSV has no more rows: post_processing_simple calls finding_tree on
\* the graph the builder returned.
FindingTree ==
    /\ pc = "build"
    /\ metric' = [trees |-> finding_tree(simple.G)]
    /\ pc' = "trees"
    /\ UNCHANGED <<rev, simple, last, stats, ranked, call>>

\* post_processing_simple calls longest_path_multidigraph on the graph.
LongestPath ==
    /\ pc = "trees"
    /\ metric' = [trees |-> metric.trees, longest |-> longest_path_multidigraph(simple.G)]
    /\ pc' = IF metric'.longest.fault = "" THEN "longest_done" ELSE "longest_fault"
    /\ UNCHANGED <<rev, simple, last, stats, ranked, call>>

NextMetrics == ReadSimpleRow \/ FindingTree \/ LongestPath

SpecMetrics == InitMetrics /\ [][NextMetrics]_vars

\* --------------------------- specification of the verification sample

\* An output row of the builder, read from the text segment of the given
\* number.
SampleRow(k) ==
    <<text_dictrionary(ToString(k)), "email", "Contact", "you", "audi", "First Party",
      "Marketing; ", "Online form">>

\* The populations of n rows; a row can occur more than once.
Populations(n) == {[i \in 1..n |-> SampleRow(kind[i])] : kind \in [1..n -> 1..2]}

\* The sampling rates: the default 0.4, a half, everything, and more rows
\* than there are.
SamplingRates == {<<2, 5>>, <<1, 2>>, <<1, 1>>, <<3, 2>>}

InitSampling ==
    /\ pc = "call"
    /\ \E n \in 0..MaxPopulation, sampling_rate \in SamplingRates :
          \E input_data \in Populations(n) :
             call = [input_data |-> input_data, sampling_rate |-> sampling_rate]
    /\ rev = Idle
    /\ last = Idle
    /\ stats = Idle
    /\ simple = Idle
    /\ metric = Idle
    /\ ranked = Idle

\* save_verification2csv(output_csv, input_data, sampling_rate) returns.
SaveVerification ==
    /\ pc = "call"
    /\ call' \in save_verification2csv(call.input_data, call.sampling_rate)
    /\ pc' = "returned"
    /\ UNCHANGED <<rev, last, stats, simple, metric, ranked>>

NextSampling == SaveVerification

SpecSampling == InitSampling /\ [][NextSampling]_vars

\* ------------------------------------ specification of get_abbreviation

\* The words of the texts.
Words == {"global", "gas", "system"}

\* The word lists of 1 to MaxWords words.
Phrases == UNION {[1..n -> Words] : n \in 1..MaxWords}

\* The text 'w1 ... wN (ABBR)rest'.
FormText(words, abbreviation, rest) ==
    Join(words, " ") \o " (" \o abbreviation \o ")" \o rest

\* A text with its parts: the words before the brackets, the token in the
\* brackets and what follows.
Formed(words, abbreviation, rest) ==
    [text |-> FormText(words, abbreviation, rest), words |-> words,
     abbreviation |-> abbreviation, rest |-> rest]

\* A text of another shape.
Unformed(text) == [text |-> text, words |-> <<>>, abbreviation |-> "", rest |-> ""]

\* The texts get_abbreviation is called with: phrases followed by a token
\* in brackets, the example of the documentation, abbreviations followed
\* by their phrase in brackets, and texts with no or two pairs of brackets.
Texts ==
    {Formed(words, abbreviation, rest) :
        words \in Phrases, abbreviation \in {"gs", "s"}, rest \in {"", " data"}}
    \cup {Formed(<<"Global", "Positioning", "System">>, "GPS", " data")}
    \cup {Unformed(text) :
            text \in {"gs (global system)", "gs (gas system) data", "gs data",
                      "global (g) system (s)", "global system (gs) gas system (gs)",
                      "global system", ""}}

InitAbbreviation ==
    /\ pc = "call"
    /\ call = [n |-> 0, input |-> Unformed(""), before |-> EmptyDict,
               err |-> FALSE, text |-> "", dict |-> EmptyDict]
    /\ rev = Idle
    /\ last = Idle
    /\ stats = Idle
    /\ simple = Idle
    /\ metric = Idle
    /\ ranked = Idle

\* get_abbreviation(text, abbreviation_dict) is called with the dictionary
\* the calls before it left, and returns or raises.
GetAbbreviation ==
    /\ pc = "call"
    /\ call.n < MaxCalls
    /\ \E input \in Texts :
          call' = With(get_abbreviation(input.text, call.dict), LAMBDA out :
                      [n |-> call.n + 1, input |-> input, before |-> call.dict,
                       err |-> out.err, text |-> out.text, dict |-> out.dict])
    /\ pc' = IF call'.err THEN "raised" ELSE "call"
    /\ UNCHANGED <<rev, last, stats, simple, metric, ranked>>

NextAbbreviation == GetAbbreviation

SpecAbbreviation == InitAbbreviation /\ [][NextAbbreviation]_vars

\* --------------------------------- specification of get_entity_property

\* The entities get_entity_property is called with.
PartyEntities ==
    {"", "Audi Financial Services", "audi customer", "our insurer", "our service",
     "your device", "you", "Users", "customer", "dhl", "unspecified party"}

\* The values of data_collection_party.
PartyCategories == {"First Party", "Third Party", "Unspecified"}

InitParty ==
    /\ pc = "call"
    /\ call = [n |-> 0, entity |-> "", party_category |-> "Unspecified",
               before |-> [first |-> <<>>, third |-> <<>>, user |-> <<>>],
               color |-> "#00008B", first |-> <<>>, third |-> <<>>, user |-> <<>>]
    /\ rev = Idle
    /\ last = Idle
    /\ stats = Idle
    /\ simple = Idle
    /\ metric = Idle
    /\ ranked = Idle

\* get_entity_property is called with the registries the calls before it
\* left, as the builder calls it for the sender and the receiver of a record.
GetEntityProperty ==
    /\ pc = "call"
    /\ call.n < MaxClassified
    /\ \E entity \in PartyEntities, party_category \in PartyCategories :
          call' = With(get_entity_property(entity, party_category, MainParty,
                                           call.first, call.third, call.user),
                       LAMBDA out :
                      [n |-> call.n + 1, entity |-> entity,
                       party_category |-> party_category,
                       before |-> [first |-> call.first, third |-> call.third,
                                   user |-> call.user],
                       color |-> out.color, first |-> out.first,
                       third |-> out.third, user |-> out.user])
    /\ UNCHANGED <<pc, rev, last, stats, simple, metric, ranked>>

NextParty == GetEntityProperty

SpecParty == InitParty /\ [][NextParty]_vars

\* ------------------------------------- specification of post_processing

\* The rows of a document with the given numbers of flows that have both
\* ends, no sender and no receiver, each flow with a data type of its own.
DocumentRows(completed, no_sender, no_receiver) ==
    [k \in 1..completed |-> PlainRow(ToString(k), "c" \o ToString(k), "you", "audi")]
    \o [k \in 1..no_sender |-> PlainRow(ToString(k), "s" \o ToString(k), "", "audi")]
    \o [k \in 1..no_receiver |-> PlainRow(ToString(k), "r" \o ToString(k), "you", "")]

InitStats ==
    /\ pc = "build"
    /\ rev = FreshRevised
    /\ \E completed \in 0..MaxCompleted, no_sender, no_receiver \in 0..MaxIncomplete :
          call = [rows |-> DocumentRows(completed, no_sender, no_receiver)]
    /\ last = Idle
    /\ stats = Idle
    /\ simple = Idle
    /\ metric = Idle
    /\ ranked = Idle

\* get_data_flow_graph_revised reads the next row of the document.
ReadDocumentRow ==
    /\ pc = "build"
    /\ call.rows # <<>>
    /\ rev' = RevisedRow(rev, Head(call.rows), MainParty).st
    /\ call' = [rows |-> Tail(call.rows)]
    /\ UNCHANGED <<pc, last, stats, simple, metric, ranked>>

\* The document has no more rows: the builder returns and post_processing
\* computes the statistics.
PostProcessDocument ==
    /\ pc = "build"
    /\ call.rows = <<>>
    /\ \E top_n \in PostTopN :
          stats' = post_processing(rev, "centrality", top_n)
    /\ pc' = IF stats'.fault = "" THEN "post_done" ELSE "post_fault"
    /\ UNCHANGED <<rev, last, simple, metric, ranked, call>>

NextStats == ReadDocumentRow \/ PostProcessDocument

SpecStats == InitStats /\ [][NextStats]_vars

\* ------------------------------------ specification of the two builders

InitBoth ==
    /\ pc = "build"
    /\ rev = FreshRevised
    /\ simple = FreshSimple
    /\ call = [n |-> 0, row |-> <<>>, revised |-> "", simple |-> "", valid |-> FALSE]
    /\ last = Idle
    /\ stats = Idle
    /\ metric = Idle
    /\ ranked = Idle

\* get_data_flow_graph_revised and get_data_flow_graph_simple, run on the
\* same CSV, read its next row; the run ends when one of them raises.
ReadRowBoth ==
    /\ pc = "build"
    /\ call.n < MaxRows
    /\ \E row \in Rows :
          With(RevisedRow(rev, row, MainParty), LAMBDA revised :
          With(SimpleRow(simple, row), LAMBDA simply :
              /\ call' = [n |-> call.n + 1, row |-> row, revised |-> revised.error,
                          simple |-> simply.error, valid |-> simply.valid]
              /\ rev' = revised.st
              /\ simple' = simply.st))
    /\ pc' = IF call'.revised = "" /\ call'.simple = "" THEN "build" ELSE "aborted"
    /\ UNCHANGED <<last, stats, metric, ranked>>

NextBoth == ReadRowBoth

SpecBoth == InitBoth /\ [][NextBoth]_vars

\* ------------------------------------- specification of load_json_data

\* The JSON objects of the cells.
JsonObjects == {[Output |-> <<>>], [data |-> <<>>]}

\* The cells read with one json.loads.
PlainCells ==
    {ObjectCell(val) : val \in JsonObjects} \cup {QuotedCell(val) : val \in JsonObjects}
    \cup {InvalidCell, ListCell, NumberCell, NullCell}

\* The cells load_json_data is called with: the plain ones, the same as the
\* content of a JSON string, and a string in a string.
JsonCells ==
    PlainCells \cup {StringCell(inner) : inner \in PlainCells}
    \cup {StringCell(StringCell(InvalidCell))}

InitJson ==
    /\ pc = "call"
    /\ call = [n |-> 0, cell |-> InvalidCell, result |-> Returned("NoneType", <<>>),
               loaded |-> <<>>]
    /\ rev = Idle
    /\ last = Idle
    /\ stats = Idle
    /\ simple = Idle
    /\ metric = Idle
    /\ ranked = Idle

\* The builder calls load_json_data on the next JSON cell of a row; an
\* exception ends the run.
LoadJsonData ==
    /\ pc = "call"
    /\ call.n < MaxCells
    /\ \E cell \in JsonCells :
          call' = [n |-> call.n + 1, cell |-> cell, result |-> load_json_data(cell),
                   loaded |-> Append(call.loaded, load_json_data(cell).type)]
    /\ pc' = IF call'.result.raised = "" THEN "call" ELSE "raised"
    /\ UNCHANGED <<rev, last, stats, simple, metric, ranked>>

NextJson == LoadJsonData

SpecJson == InitJson /\ [][NextJson]_vars

\* ----------------------------------------------------------- properties

\* No element occurs twice in the list.
NoDuplicates(arr) == \A i, j \in DOMAIN arr : arr[i] = arr[j] => i = j

\* The two lists share no element.
Disjoint(a, b) == Range(a) \cap Range(b) = {}

\* before is the beginning of after.
IsPrefix(before, after) ==
    Len(before) <= Len(after) /\ SubSeq(after, 1, Len(before)) = before

PairwiseDistinct(a, b, c) == a # b /\ b # c /\ a # c

\* C1: a record that added a dedup key, a node, an edge or an output row has
\* a normalised (sender, data_type, receiver) triple of three pairwise
\* distinct members, and so has every output row and every edge.
AcceptedTripleDistinct ==
    /\ last.changed =>
          /\ last.normalized
          /\ PairwiseDistinct(last.data_sender, last.data_type, last.data_receiver)
    /\ \A i \in DOMAIN rev.data_output_arr :
          PairwiseDistinct(rev.data_output_arr[i][4], rev.data_output_arr[i][2],
                           rev.data_output_arr[i][5])
    /\ \A i \in DOMAIN rev.G.edges : rev.G.edges[i].u # rev.G.edges[i].v

\* C1: a record was accepted whose data_type normalisation rewrote.
AcceptedAfterNormalisation ==
    /\ last.changed
    /\ last.error = ""
    /\ last.data_type # last.row.data_type
    /\ Len(rev.data_output_arr) > 0

\* C2: the three flow registries are pairwise disjoint and none of them
\* holds a key twice.
FlowRegistriesDisjoint ==
    /\ Disjoint(rev.data_flow_completed_arr, rev.data_flow_no_sender_arr)
    /\ Disjoint(rev.data_flow_completed_arr, rev.data_flow_no_receiver_arr)
    /\ Disjoint(rev.data_flow_no_sender_arr, rev.data_flow_no_receiver_arr)
    /\ NoDuplicates(rev.data_flow_completed_arr)
    /\ NoDuplicates(rev.data_flow_no_sender_arr)
    /\ NoDuplicates(rev.data_flow_no_receiver_arr)

\* At most one edge per ordered pair of nodes.
OneEdgePerPair(G) ==
    \A i, j \in DOMAIN G.edges :
        (G.edges[i].u = G.edges[j].u /\ G.edges[i].v = G.edges[j].v) => i = j

\* C3: the graph has at most one edge per ordered node pair, and a step
\* leaves every edge that exists in place with its group, color,
\* description and title: a record that targets a connected pair adds no
\* edge for it.
EdgeFirstWriterWins ==
    [][/\ OneEdgePerPair(rev'.G)
       /\ IsPrefix(rev.G.edges, rev'.G.edges)]_vars

\* C3: a record passed the gate whose pair (sender, data_type) an earlier
\* record, read from another text segment, had connected.
SecondRecordOnConnectedPair ==
    /\ last.valid
    /\ last.error = ""
    /\ Len(rev.data_output_arr) = 2
    /\ rev.data_output_arr[1][4] = rev.data_output_arr[2][4]
    /\ rev.data_output_arr[1][2] = rev.data_output_arr[2][2]
    /\ rev.data_output_arr[1][1] # rev.data_output_arr[2][1]

\* C4: the three party registries are pairwise disjoint and free of
\* duplicates, and a step only appends to them.
PartyRegistriesAppendOnly ==
    [][/\ IsPrefix(rev.first_party_arr, rev'.first_party_arr)
       /\ IsPrefix(rev.third_party_arr, rev'.third_party_arr)
       /\ IsPrefix(rev.user_party_arr, rev'.user_party_arr)
       /\ Disjoint(rev'.first_party_arr, rev'.third_party_arr)
       /\ Disjoint(rev'.first_party_arr, rev'.user_party_arr)
       /\ Disjoint(rev'.third_party_arr, rev'.user_party_arr)
       /\ NoDuplicates(rev'.first_party_arr)
       /\ NoDuplicates(rev'.third_party_arr)
       /\ NoDuplicates(rev'.user_party_arr)]_vars

\* C4: two records were accepted that name the same sender, and each of the
\* three registries holds an entity.
EntityMetAgain ==
    /\ Len(rev.data_output_arr) = 2
    /\ rev.data_output_arr[1][4] = rev.data_output_arr[2][4]
    /\ rev.first_party_arr # <<>>
    /\ rev.third_party_arr # <<>>
    /\ rev.user_party_arr # <<>>

\* The five JSON columns of a row.
JsonFields ==
    {"data_category", "data_flow", "data_collection_party",
     "data_collection_purpose", "data_collection_method"}

\* C5: a record one of whose five JSON cells does not parse adds no node,
\* edge, dedup key or output row, and the run goes on to the next record
\* instead of aborting.
ParseFailureSkipsRecord ==
    (last.n > 0 /\ \E f \in JsonFields : load_json_data(last.row[f]).none)
        => (~last.changed /\ last.error = "" /\ pc # "aborted")

\* C6: post_processing raises no division by zero when there is no flow at
\* all, no completed flow, or no entity in the three party registries.
ZeroDenominatorNoFault ==
    (/\ pc \in {"post_done", "post_fault"}
     /\ \/ Len(rev.data_flow_completed_arr) + Len(rev.data_flow_no_sender_arr)
               + Len(rev.data_flow_no_receiver_arr) = 0
        \/ Len(rev.data_flow_completed_arr) = 0
        \/ Len(rev.first_party_arr) + Len(rev.third_party_arr)
               + Len(rev.user_party_arr) = 0)
        => stats.fault = ""

\* The entries are entries of the ranking, none of them twice.
EntriesOf(out, input_data) ==
    /\ \A i \in DOMAIN out : In(out[i], input_data)
    /\ NoDuplicates(out)

\* No entry left out scores lower (higher, when reverse) than an entry of out.
Extreme(out, input_data, reverse) ==
    \A i \in DOMAIN out, j \in DOMAIN input_data :
        In(input_data[j], out)
        \/ (IF reverse THEN input_data[j][2] <= out[i][2] ELSE input_data[j][2] >= out[i][2])

\* The scores of out ascend (descend, when reverse).
Ordered(out, reverse) ==
    \A i, j \in DOMAIN out :
        i < j => (IF reverse THEN out[i][2] >= out[j][2] ELSE out[i][2] <= out[j][2])

\* C7: process returns, for top_n < 0, the |top_n| lowest-scoring entries
\* (all of them when the ranking has fewer) in ascending order of score,
\* and for top_n > 0 the min(top_n, number of nodes) highest-scoring
\* entries in descending order.
ProcessSelectsTopN ==
    pc = "returned" =>
        /\ ranked.top_n < 0 =>
              /\ Len(ranked.sorted_results) = Min(0 - ranked.top_n, Len(ranked.input_data))
              /\ EntriesOf(ranked.sorted_results, ranked.input_data)
              /\ Extreme(ranked.sorted_results, ranked.input_data, FALSE)
              /\ Ordered(ranked.sorted_results, FALSE)
        /\ ranked.top_n > 0 =>
              /\ Len(ranked.sorted_results) = Min(ranked.top_n, Len(ranked.input_data))
              /\ EntriesOf(ranked.sorted_results, ranked.input_data)
              /\ Extreme(ranked.sorted_results, ranked.input_data, TRUE)
              /\ Ordered(ranked.sorted_results, TRUE)

\* The MultiDiGraph has a directed cycle.
ContainsCycle(G) == ~is_directed_acyclic_graph([nodes |-> NodeIds(G), edges |-> G.edges])

\* C8: on a graph that contains a cycle longest_path_multidigraph takes the
\* spanning-tree fallback, hands an acyclic graph to the longest-path step
\* and returns normally.
CyclicInputTakesFallback ==
    (pc \in {"longest_done", "longest_fault"} /\ ContainsCycle(simple.G))
        => /\ metric.longest.fallback
           /\ metric.longest.acyclic
           /\ metric.longest.fault = ""

\* The undirected simple projection of the graph: the pairs of distinct
\* nodes that an edge joins, in whichever direction and however often.
Projection(G) ==
    {{G.edges[i].u, G.edges[i].v} : i \in DOMAIN G.edges} \ {{n} : n \in Range(NodeIds(G))}

\* The nodes of the component of the projection that holds the nodes of seen.
RECURSIVE ProjectionComponent(_, _)
ProjectionComponent(G, seen) ==
    With(seen \cup UNION {pair \in Projection(G) : pair \cap seen # {}}, LAMBDA more :
        IF more = seen THEN seen ELSE ProjectionComponent(G, more))

\* The components of the projection that are trees: connected, with one
\* edge fewer than nodes.
ProjectionTrees(G) ==
    {component \in {ProjectionComponent(G, {n}) : n \in Range(NodeIds(G))} :
        Cardinality({pair \in Projection(G) : pair \subseteq component})
            = Cardinality(component) - 1}

SampleWithoutReplacement ==
    pc = "returned" =>
        /\ call.sampling_size * call.sampling_rate[2]
               <= Len(call.input_data) * call.sampling_rate[1]
        /\ Len(call.input_data) * call.sampling_rate[1]
               < (call.sampling_size + 1) * call.sampling_rate[2]
        /\ Len(call.input_data) >= call.sampling_size =>
              /\ Len(call.sample_data) = call.sampling_size
              /\ Len(call.samples) = call.sampling_size
              /\ \A i, j \in DOMAIN call.samples :
                    call.samples[i] = call.samples[j] => i = j
              /\ \A k \in DOMAIN call.sample_data :
                    /\ call.samples[k] \in 0..(Len(call.input_data) - 1)
                    /\ call.sample_data[k] = call.input_data[call.samples[k] + 1]
        /\ Len(call.input_data) < call.sampling_size =>
              call.sample_data = call.input_data

\* C11: two of five rows were sampled at the default rate, the later row
\* first, from a population that holds a row twice.
SampledTwoOfFive ==
    /\ pc = "returned"
    /\ Len(call.input_data) = 5
    /\ call.sampling_rate = <<2, 5>>
    /\ Len(call.sample_data) = 2
    /\ call.samples[1] > call.samples[2]
    /\ call.input_data[1] = call.input_data[3]

\* How often the string part occurs in s, counted from left to right
\* without overlap.
Occurrences(s, part) == Len(Split(Replace(s, part, " # "))) - Len(Split(Replace(s, part, " ")))

\* A call of get_abbreviation on 'w1 ... wN (ABBR)rest' where ABBR is the
\* initials of w1 ... wN and is no key of the dictionary yet.
FoldingCall(c) ==
    /\ c.n > 0
    /\ c.input.words # <<>>
    /\ c.input.abbreviation = Initials(c.input.words)
    /\ c.input.abbreviation \notin DOMAIN c.before

FirstRegistrationWins ==
    [][\A abbreviation \in DOMAIN call.dict :
          /\ abbreviation \in DOMAIN call'.dict
          /\ call'.dict[abbreviation] = call.dict[abbreviation]]_vars

\* C17 witness: a call on a text whose abbreviation was registered by an
\* earlier call with another phrase than the one this text matches.
RegisteredKeyMetAgain ==
    /\ call.n > 1
    /\ call.input.words # <<>>
    /\ call.input.abbreviation = Initials(call.input.words)
    /\ call.input.abbreviation \in DOMAIN call.before
    /\ call.before[call.input.abbreviation] # Join(call.input.words, " ")
    /\ call.dict = call.before

\* The call classified its entity First, User or Third: the colour of the
\* class, the lower-cased entity in the registry of the class, the other two
\* registries as they were.
ClassifiedFirst(c) ==
    /\ c.color = "#ccff99"
    /\ In(Lower(c.entity), c.first)
    /\ IsPrefix(c.before.first, c.first)
    /\ c.third = c.before.third /\ c.user = c.before.user

ClassifiedUser(c) ==
    /\ c.color = "#f7ff99"
    /\ In(Lower(c.entity), c.user)
    /\ IsPrefix(c.before.user, c.user)
    /\ c.first = c.before.first /\ c.third = c.before.third

ClassifiedThird(c) ==
    /\ c.color = "#ff99ff"
    /\ In(Lower(c.entity), c.third)
    /\ IsPrefix(c.before.third, c.third)
    /\ c.first = c.before.first /\ c.user = c.before.user

\* The call left its entity in no class.
Unclassified(c) ==
    /\ c.color = "#00008B"
    /\ c.first = c.before.first /\ c.third = c.before.third /\ c.user = c.before.user

\* The entity names the first party: it contains main_party or
\* rectify_collection_party holds.
NamesFirstParty(c) ==
    Contains(Lower(c.entity), MainParty) \/ rectify_collection_party(Lower(c.entity))

\* The head of the entity starts with 'you', 'user' or 'customer'.
HeadNamesUser(c) ==
    \/ StartsWith(get_main(Lower(c.entity)), "you")
    \/ StartsWith(get_main(Lower(c.entity)), "user")
    \/ StartsWith(get_main(Lower(c.entity)), "customer")

\* The entity 'unspecified party' of a record whose collection party is
\* 'Unspecified'.
UnspecifiedParty(c) ==
    c.party_category = "Unspecified" /\ Lower(c.entity) = "unspecified party"

\* C13, as stated: a non-empty entity is First if it names the first party,
\* otherwise User if its head names the user, otherwise Third.
StrictPrecedence ==
    (call.n > 0 /\ call.entity # "") =>
        IF NamesFirstParty(call) THEN ClassifiedFirst(call)
        ELSE IF HeadNamesUser(call) THEN ClassifiedUser(call)
        ELSE ClassifiedThird(call)

\* C13, amended: a non-empty entity is First if it names the first party,
\* otherwise User if its head names the user, otherwise Third, except the
\* entity 'unspecified party' of a record whose collection party is
\* 'Unspecified', which is left in no class.  With main_party 'audi',
\* 'Audi Financial Services' is First and 'our insurer' is Third.
PrecedenceButUnspecified ==
    (call.n > 0 /\ call.entity # "") =>
        /\ IF NamesFirstParty(call) THEN ClassifiedFirst(call)
           ELSE IF HeadNamesUser(call) THEN ClassifiedUser(call)
           ELSE IF UnspecifiedParty(call) THEN Unclassified(call)
           ELSE ClassifiedThird(call)
        /\ call.entity = "Audi Financial Services" => ClassifiedFirst(call)
        /\ call.entity = "our insurer" => ClassifiedThird(call)

\* C13 witness: 'audi customer', whose head starts with 'customer', was
\* classified First because it contains the main party.
FirstBeforeUser ==
    /\ call.n > 0
    /\ call.entity = "audi customer"
    /\ HeadNamesUser(call)
    /\ ClassifiedFirst(call)

CategoryOfRow(row) == DataCategoryOf(load_json_data(row.data_category))

\* C15: the category map keeps for each data_type the category of the first
\* row that carries it: reading a row leaves every key with its category,
\* and the data_type of the row is a key afterwards, with the category of
\* the row when it was none before, whether or not the row passes the
\* validity gate or ends the run.
CategoryFirstSeenWins ==
    [][last'.n = last.n + 1 =>
          /\ \A data_type \in DOMAIN rev.data_category_dic :
                /\ data_type \in DOMAIN rev'.data_category_dic
                /\ rev'.data_category_dic[data_type] = rev.data_category_dic[data_type]
          /\ last'.row.data_type \in DOMAIN rev'.data_category_dic
          /\ last'.row.data_type \notin DOMAIN rev.data_category_dic =>
                rev'.data_category_dic[last'.row.data_type] = CategoryOfRow(last'.row)]_vars

\* C15 witness: the second row carries a data_type with another category
\* than the one the map holds for it, and is the only row that passed the
\* gate: the map holds the category of the first row, which was rejected.
CategoryOfRejectedRowKept ==
    /\ last.n = 2
    /\ last.valid /\ last.error = ""
    /\ Len(rev.data_output_arr) = 1
    /\ last.row.data_type \in DOMAIN rev.data_category_dic
    /\ rev.data_category_dic[last.row.data_type] # CategoryOfRow(last.row)

\* The flow registries that hold the key.
RegistriesHolding(st, key) ==
    {name \in {"completed", "no_sender", "no_receiver"} :
        In(key, CASE name = "completed" -> st.data_flow_completed_arr
                  [] name = "no_sender" -> st.data_flow_no_sender_arr
                  [] name = "no_receiver" -> st.data_flow_no_receiver_arr)}

\* C16: after a row that passed the validity gate, its key
\* 'sender#type#receiver' is in exactly one flow registry: completed when
\* sender and receiver are both there, no_sender when only the sender is
\* empty, no_receiver when only the receiver is empty; a row whose sender
\* and receiver are both empty changes no registry, node, edge or output row.
FlowKeyInExactlyOneRegistry ==
    (last.n > 0 /\ last.normalized) =>
        /\ last.valid =>
              RegistriesHolding(rev, FlowKey(last.data_sender, last.data_type, last.data_receiver))
                  = {IF last.data_sender = "" THEN "no_sender"
                     ELSE IF last.data_receiver = "" THEN "no_receiver"
                     ELSE "completed"}
        /\ (last.data_sender = "" /\ last.data_receiver = "") =>
              ~last.valid /\ ~last.changed

\* The ordered pairs of nodes that an edge of G joins.
EdgePairs(G) == {<<G.edges[i].u, G.edges[i].v>> : i \in DOMAIN G.edges}

\* C18: as long as neither builder has raised, the graph of
\* get_data_flow_graph_simple and the graph of get_data_flow_graph_revised
\* have the same nodes and the same ordered pairs joined by an edge, after
\* every row of the same input.
BuildersAgree ==
    pc = "build" =>
        /\ Range(NodeIds(simple.G)) = Range(NodeIds(rev.G))
        /\ EdgePairs(simple.G) = EdgePairs(rev.G)
        /\ Len(simple.G.edges) = Len(rev.G.edges)

\* C18 witness: both builders have read two rows, the second of which
\* passed the gate, and hold a graph with edges.
BothBuiltTwoRows ==
    /\ pc = "build"
    /\ call.n = 2
    /\ call.valid
    /\ Cardinality(EdgePairs(rev.G)) >= 3
    /\ EdgePairs(simple.G) = EdgePairs(rev.G)

\* How many keys the three flow registries hold.
RegisteredFlows(st) ==
    Len(st.data_flow_completed_arr) + Len(st.data_flow_no_sender_arr)
        + Len(st.data_flow_no_receiver_arr)

\* The output row of the row just read: 8 fields, of which the raw text, the
\* normalised data type, the category, and the normalised sender and
\* receiver are those of the row.
OutputRowOf(seen, data_output) ==
    /\ Len(data_output) = 8
    /\ data_output[1] = text_dictrionary(seen.row.text_idx)
    /\ data_output[2] = seen.data_type
    /\ data_output[3] = CategoryOfRow(seen.row)
    /\ data_output[4] = seen.data_sender
    /\ data_output[5] = seen.data_receiver

\* C19: while the builder has not raised, reading a row that passes the
\* validity gate appends exactly one 8-field row of that record to the end
\* of the output rows, whether or not its key or its edges existed, and
\* reading a row that does not pass leaves the output rows as they were;
\* the output rows are then at least as many as the keys of the three flow
\* registries.
OneOutputRowPerAcceptedRecord ==
    [][(last'.n = last.n + 1 /\ last'.error = "") =>
          /\ last'.valid =>
                /\ Len(rev'.data_output_arr) = Len(rev.data_output_arr) + 1
                /\ IsPrefix(rev.data_output_arr, rev'.data_output_arr)
                /\ OutputRowOf(last', rev'.data_output_arr[Len(rev'.data_output_arr)])
          /\ ~last'.valid => rev'.data_output_arr = rev.data_output_arr
          /\ Len(rev'.data_output_arr) >= RegisteredFlows(rev')]_vars

\* C19 witness: two rows of the same flow were read; the second found its
\* key and its edges in place and still added an output row.
OutputRowForKnownFlow ==
    /\ pc = "build"
    /\ last.n = 2
    /\ last.valid
    /\ Len(rev.data_output_arr) = 2
    /\ RegisteredFlows(rev) = 1
    /\ Len(rev.G.edges) = 2

\* The last item of a list of the JSON of a cell.
LastItem(items) == items[Len(items)]

\* The flows of the row, read from its JSON.
FlowsOfRow(row) == load_json_data(row.data_flow).val.data

\* The categories of the row, read from its JSON.
CategoriesOfRow(row) == load_json_data(row.data_category).val.Output

\* C20: the builder takes sender and receiver from the last item of
\* flow.data and the category from the last item of category.Output: the
\* triple of a row with several flows is the normalised triple of its last
\* flow, an empty flow.data gives an empty sender and an empty receiver,
\* and the output row of an accepted row carries the DataCategory of the
\* last category, or 'Unspecified' when category.Output is empty.
LastItemWins ==
    [][(last'.n = last.n + 1 /\ last'.normalized) =>
          /\ Len(FlowsOfRow(last'.row)) > 1 =>
                With(NormalizeTriple(last'.row.data_type,
                         LastItem(FlowsOfRow(last'.row)).data_sender,
                         LastItem(FlowsOfRow(last'.row)).data_receiver,
                         rev.abbreviation_dict),
                     LAMBDA n : /\ last'.data_sender = n.data_sender
                                /\ last'.data_receiver = n.data_receiver)
          /\ FlowsOfRow(last'.row) = <<>> =>
                last'.data_sender = "" /\ last'.data_receiver = ""
          /\ (last'.valid /\ last'.error = ""
                /\ ~load_json_data(last'.row.data_category).none) =>
                LastItem(rev'.data_output_arr)[3] =
                    IF CategoriesOfRow(last'.row) = <<>> THEN "Unspecified"
                    ELSE LastItem(CategoriesOfRow(last'.row)).DataCategory]_vars

\* C20 witness: the first row had the categories Location and Other and
\* went out as Other; the second had two flows with different senders and
\* receivers and was accepted with those of the second flow.
LastOfSeveralTaken ==
    /\ last.n = 2
    /\ last.valid /\ last.error = ""
    /\ Len(rev.data_output_arr) = 2
    /\ rev.data_output_arr[1][3] = "Other"
    /\ Len(FlowsOfRow(last.row)) = 2
    /\ FlowsOfRow(last.row)[1].data_sender # FlowsOfRow(last.row)[2].data_sender
    /\ FlowsOfRow(last.row)[1].data_receiver # FlowsOfRow(last.row)[2].data_receiver
    /\ last.data_sender = FlowsOfRow(last.row)[2].data_sender
    /\ last.data_receiver = FlowsOfRow(last.row)[2].data_receiver

\* C21: every node of the graph of the revised builder carries the
\* attributes color, size and title, and a row whose normalised data_type
\* is empty leaves no node without them.
EveryNodeHasAttributes ==
    \A i \in DOMAIN rev.G.nodes :
        {"color", "size", "title"} \subseteq DOMAIN rev.G.nodes[i].attrs

\* C22: the output row of a row that passed the validity gate and whose
\* normalised receiver contains main_party or satisfies
\* rectify_collection_party carries the collection party 'First Party',
\* whatever collection_party.Output holds, also when it is empty.
FirstPartyReceiverLabelled ==
    (/\ last.n > 0
     /\ last.valid /\ last.error = ""
     /\ \/ Contains(last.data_receiver, MainParty)
        \/ rectify_collection_party(last.data_receiver)) =>
        LastItem(rev.data_output_arr)[6] = "First Party"

\* The purposes of the row, read from its JSON.
PurposesOfRow(row) == load_json_data(row.data_collection_purpose).val.Output

\* The row names one purpose, and it is a label of the taxonomy.
OneConfiguredPurpose(row) ==
    /\ Len(PurposesOfRow(row)) = 1
    /\ PurposesOfRow(row)[1].DataCategory \in Range(purposes)

\* C23: an edge created for a row whose collection_purpose.Output is one
\* entry with a label of the taxonomy has that label's colour of the
\* purpose colour map, and the colour for unmapped purposes goes only to
\* edges of rows whose purpose is no such label.
ConfiguredPurposeColoursEdge ==
    [][(last'.n = last.n + 1 /\ last'.error = "") =>
          \A i \in (DOMAIN rev'.G.edges) \ (DOMAIN rev.G.edges) :
              /\ OneConfiguredPurpose(last'.row) =>
                    rev'.G.edges[i].attrs.color =
                        purpose_color_map[PurposesOfRow(last'.row)[1].DataCategory]
              /\ rev'.G.edges[i].attrs.color = "ff000000" =>
                    ~OneConfiguredPurpose(last'.row)]_vars

\* The entity is a member of one of the three party registries.
Registered(st, entity) ==
    In(entity, st.first_party_arr) \/ In(entity, st.third_party_arr)
        \/ In(entity, st.user_party_arr)

\* The completed flows whose sender and receiver are both registered.
FlowsBetweenRegistered(st) ==
    {i \in DOMAIN st.data_flow_completed_arr :
        /\ Registered(st, SplitOn(st.data_flow_completed_arr[i], "#")[1])
        /\ Registered(st, SplitOn(st.data_flow_completed_arr[i], "#")[3])}

\* The sum of the seven transition counters.
CounterSum(counters) ==
    counters["u_2_f"] + counters["u_2_t"] + counters["f_2_u"] + counters["f_2_t"]
        + counters["f_2_f"] + counters["t_2_t"] + counters["t_2_f"]

\* C24: the seven transition counters of post_processing partition the
\* completed flows whose sender and receiver are both registered: each such
\* flow increments exactly one counter and every other flow none, so the
\* counters sum to the number of such flows and to at most |completed|.
CountersPartitionRegisteredFlows ==
    pc \in {"post_done", "post_fault"} =>
        /\ CounterSum(stats.counters) = Cardinality(FlowsBetweenRegistered(rev))
        /\ CounterSum(stats.counters) <= Len(rev.data_flow_completed_arr)

\* The fraction of the keys of the ranking that are in entity_arr, as
\* <<numerator, denominator>>.
FractionIn(ranking, entity_arr) ==
    <<Cardinality({i \in DOMAIN ranking : In(ranking[i][1], entity_arr)}), Len(ranking)>>

\* C25: get_percentage does not raise when the ranking it is given is
\* empty, so post_processing never ends with the division of line 680
\* raising, and for a ranking that is not empty the score is the fraction
\* of its keys that are in the entity list.
EmptyRankingGivesNone ==
    /\ pc = "post_fault" => stats.line # 680
    /\ pc = "post_done" =>
          \E top_n \in PostTopN :
              /\ stats.scores[1].value =
                    FractionIn(get_network_stats(rev.G, "centrality", top_n), rev.first_party_arr)
              /\ stats.scores[2].value =
                    FractionIn(get_network_stats(rev.G, "centrality", top_n), rev.third_party_arr)

\* C26: get_abbreviation returns the text and the dictionary as it got
\* them, and does not raise, when the text holds no group in brackets or
\* two or more: only a text with exactly one group is rewritten or adds an
\* entry.
OnlyOneGroupIsFolded ==
    (call.n > 0 /\ Occurrences(call.input.text, "(") # 1) =>
        /\ ~call.err
        /\ call.text = call.input.text
        /\ call.dict = call.before

\* C26 witness: 'global (g) system (s)', each of whose two groups is the
\* initial of the word before it, came back as it was, after a call that
\* had registered an abbreviation, and the dictionary is as that call left it.
TwoGroupsLeftAlone ==
    /\ call.n = 2
    /\ call.input.text = "global (g) system (s)"
    /\ call.text = "global (g) system (s)"
    /\ DOMAIN call.before # {}
    /\ call.dict = call.before

\* The ids of the nodes that the builder created as data types: the boxes,
\* and the node without attributes that the edges of an empty data type
\* create.
DataTypeNodes(G) ==
    {G.nodes[i].id : i \in {j \in DOMAIN G.nodes :
        \/ G.nodes[j].attrs = NoAttrs
        \/ "shape" \in DOMAIN G.nodes[j].attrs /\ G.nodes[j].attrs.shape = "box"}}

\* The fraction of the keys of the ranking that are data-type nodes of G.
DataTypeFraction(G, ranking) ==
    <<Cardinality({i \in DOMAIN ranking : ranking[i][1] \in DataTypeNodes(G)}), Len(ranking)>>

\* C27: the data-type overlap score of post_processing is the number of
\* ranked nodes that are data-type nodes of the graph over the number of
\* ranked nodes, whether or not normalisation changed the raw data_type.
DataTypeScoreCountsTypeNodes ==
    pc = "post_done" =>
        \E top_n \in PostTopN :
            /\ stats.scores[1].value =
                  FractionIn(get_network_stats(rev.G, "centrality", top_n), rev.first_party_arr)
            /\ stats.scores[3].value =
                  DataTypeFraction(rev.G, get_network_stats(rev.G, "centrality", top_n))

\* The MultiDiGraph has no cycle: no directed cycle, and every component
\* of its undirected projection is a tree.
IsForest(G) ==
    /\ ~ContainsCycle(G)
    /\ \A n \in Range(NodeIds(G)) : ProjectionComponent(G, {n}) \in ProjectionTrees(G)

\* The path follows the edges of G in their direction.
FollowsEdges(G, path) ==
    \A i \in 1..(Len(path) - 1) : has_edge(G, path[i], path[i + 1])

\* The greatest number of a set of naturals, 0 for the empty set.
Greatest(S) == IF S = {} THEN 0 ELSE CHOOSE m \in S : \A x \in S : x <= m

\* The number of edges of the longest directed path of the acyclic G that
\* starts at n.
RECURSIVE LongestDirectedFrom(_, _)
LongestDirectedFrom(G, n) ==
    Greatest({1 + LongestDirectedFrom(G, G.edges[i].v) :
                 i \in {j \in DOMAIN G.edges : G.edges[j].u = n}})

\* The number of edges of the longest directed path of the acyclic G.
LongestDirected(G) == Greatest({LongestDirectedFrom(G, n) : n \in Range(NodeIds(G))})

\* C28: for a graph without cycle longest_path_multidigraph returns a path
\* that follows the edges of the graph in their direction and whose length
\* is the greatest length of a directed path of the graph.
LongestPathOfForestIsDirected ==
    (pc \in {"longest_done", "longest_fault"} /\ IsForest(simple.G)) =>
        /\ metric.longest.fault = ""
        /\ FollowsEdges(simple.G, metric.longest.longest_path)
        /\ metric.longest.longest_path_length = LongestDirected(simple.G)

\* C29: load_json_data is total and fails closed: for every input it
\* returns a dict or None, raises nothing and returns no string or other
\* value that is not a dict.
LoadJsonDataFailsClosed ==
    call.n > 0 =>
        /\ call.result.raised = ""
        /\ call.result.type \in {"dict", "NoneType"}

\* The edges of G that join a node with itself.
SelfLoops(G) == {i \in DOMAIN G.edges : G.edges[i].u = G.edges[i].v}

\* C30: after any sequence of records the graph of
\* get_data_flow_graph_revised and the graph of get_data_flow_graph_simple
\* have no self-loop, also when a builder has raised on the last record.
NoSelfLoop ==
    /\ SelfLoops(rev.G) = {}
    /\ SelfLoops(simple.G) = {}

\* C30 witness: after a row that put edges into both graphs, both builders
\* read a row whose data_type 'Dhl' normalises to its receiver 'dhl', and
\* both turned it down.
ReceiverIsTypeTurnedDown ==
    /\ pc = "build"
    /\ call.n = 2
    /\ ~call.valid
    /\ call.row.data_type = "Dhl"
    /\ ~load_json_data(call.row.data_flow).none
    /\ FlowsOfRow(call.row) # <<>>
    /\ LastItem(FlowsOfRow(call.row)).data_sender = "you"
    /\ LastItem(FlowsOfRow(call.row)).data_receiver = "dhl"
    /\ Len(rev.G.edges) >= 2
    /\ Len(simple.G.edges) >= 2

====
